---- MODULE Spec2Model ----
(***************************************************************************)
(* Cost manager REST services: GET /api/report (monthly report with the    *)
(* Computed Pattern cache) and POST /api/add (cost), running against the   *)
(* users, costs and reports collections of one document store.             *)
(*                                                                         *)
(* Every request handler is an async function: the code between two awaits *)
(* runs without interruption, and at each await (one store round trip) the *)
(* handlers of other requests and the wall clock may advance.  One action  *)
(* of the model is one such uninterrupted piece of a handler.              *)
(***************************************************************************)
EXTENDS Integers, Sequences, FiniteSets, TLC

(***************************************************************************)
(* Bounds of the model.                                                    *)
(***************************************************************************)
\* GET /report requests that can be in flight at the same time
NumReportReqs == 2
\* POST /add (cost) requests that can be in flight at the same time
NumCostReqs == 1
\* documents the costs collection can hold while report requests overlap
MaxCosts == 1
\* documents the costs collection can hold while report requests are
\* handled one after the other
MaxCostsSeq == 2
\* clock instants per day of the compressed calendar
TicksPerDay == 2
\* days per month of the compressed calendar
DaysPerMonth == 2
\* how far the wall clock advances after the services start
MaxTicks == 2
\* documents the reports collection can hold while months are classified
MaxReports == 2
\* POST /add (user) requests that can be in flight at the same time
NumUserReqs == 2

\* the year the wall clock starts in (on its last day)
StartYear == 2025
\* Cost documents a store written past the route's checks holds at most
MaxStoredCosts == 2
\* log writes the requests of a behaviour issue at most
MaxLogCreates == 4
\* the same while totals are asked for, and the costs stored at most
MaxTotalsLogCreates == 2
MaxCostsTotals == 3

(***************************************************************************)
(* Program constants.                                                      *)
(***************************************************************************)
\* months of a calendar year (Date month index 0..11, month numbers 1..12)
MonthsPerYear == 12

\* config/categories.js
CATEGORIES == <<"food", "health", "housing", "sports", "education">>

\* Keys every plain JavaScript object inherits from Object.prototype
\* (groupedCats is a plain object, so groupedCats[key] finds them).
ObjectPrototypeKeys ==
    {"constructor", "toString", "valueOf", "hasOwnProperty", "__proto__"}

(***************************************************************************)
(* JavaScript values of a request: undefined, null, strings (sequences of  *)
(* one-character strings) and numbers (num/den with den a power of ten,    *)
(* or NaN).                                                                *)
(***************************************************************************)
Undefined == [t |-> "undefined"]
Null == [t |-> "null"]
Str(s) == [t |-> "string", s |-> s]
NaN == [nan |-> TRUE, num |-> 0, den |-> 1]
Num(n) == [nan |-> FALSE, num |-> n, den |-> 1]
Frac(n, d) == [nan |-> FALSE, num |-> n, den |-> d]

DigitVal ==
    "0" :> 0 @@ "1" :> 1 @@ "2" :> 2 @@ "3" :> 3 @@ "4" :> 4 @@
    "5" :> 5 @@ "6" :> 6 @@ "7" :> 7 @@ "8" :> 8 @@ "9" :> 9
Digits == DOMAIN DigitVal

RECURSIVE TrimStart(_)
TrimStart(s) ==
    IF s # <<>> /\ Head(s) = " " THEN TrimStart(Tail(s)) ELSE s

RECURSIVE TrimEnd(_)
TrimEnd(s) ==
    IF s # <<>> /\ s[Len(s)] = " "
    THEN TrimEnd(SubSeq(s, 1, Len(s) - 1))
    ELSE s

\* String.prototype.trim
Trim(s) == TrimEnd(TrimStart(s))

\* the value of a run of decimal digits, read left to right
RECURSIVE DigitsValue(_, _)
DigitsValue(s, acc) ==
    IF s = <<>> THEN acc
    ELSE DigitsValue(Tail(s), acc * 10 + DigitVal[Head(s)])

RECURSIVE PowerOfTen(_)
PowerOfTen(k) == IF k = 0 THEN 1 ELSE 10 * PowerOfTen(k - 1)

\* Number(string): StringToNumber of a decimal literal.  White space is
\* trimmed, the empty string is 0, an optional sign is followed by digits
\* with at most one decimal point; anything else is NaN.
StringToNumber(s) ==
    LET t == Trim(s)
        signed == t # <<>> /\ Head(t) \in {"-", "+"}
        sign == IF t # <<>> /\ Head(t) = "-" THEN -1 ELSE 1
        u == IF signed THEN Tail(t) ELSE t
        dots == {i \in 1..Len(u) : u[i] = "."}
        wellFormed ==
            /\ \A i \in 1..Len(u) : u[i] \in Digits \cup {"."}
            /\ Cardinality(dots) <= 1
            /\ \E i \in 1..Len(u) : u[i] \in Digits
        dot == IF dots = {} THEN Len(u) + 1 ELSE CHOOSE i \in dots : TRUE
        whole == SubSeq(u, 1, dot - 1)
        frac == SubSeq(u, dot + 1, Len(u))
    IN  IF t = <<>> THEN Num(0)
        ELSE IF ~wellFormed THEN NaN
        ELSE Frac(sign * DigitsValue(whole \o frac, 0), PowerOfTen(Len(frac)))

\* Number(value) for the values a query string or a JSON body can hold
ToNumber(v) ==
    IF v.t = "number" THEN v.v
    ELSE IF v.t = "string" THEN StringToNumber(v.s)
    ELSE IF v.t = "null" THEN Num(0)
    ELSE NaN

\* Number.isInteger
IsInteger(n) == ~n.nan /\ n.num % n.den = 0

\* n <= 0 on numbers (every comparison with NaN is false)
IsNotPositive(n) == ~n.nan /\ n.num <= 0

\* n > k on numbers, for an integer k
IsGreaterThan(n, k) == ~n.nan /\ n.num > k * n.den

\* the integer a number with IsInteger(n) stands for
IntegerOf(n) == n.num \div n.den

\* !value of a query parameter: undefined and the empty string are falsy
IsFalsy(v) ==
    \/ v.t \in {"undefined", "null"}
    \/ v.t = "string" /\ v.s = <<>>

(***************************************************************************)
(* Date: an instant is a number of clock ticks.  The calendar is           *)
(* compressed to DaysPerMonth days per month and TicksPerDay instants per  *)
(* day; instant 0 is the start of January 1st of year 0, local time.       *)
(***************************************************************************)
TicksPerMonth == DaysPerMonth * TicksPerDay

\* new Date(year, monthIndex, day): a year of 0..99 means 1900 + year
DateOf(year, monthIndex, day) ==
    LET y == IF year \in 0..99 THEN 1900 + year ELSE year
    IN  (y * MonthsPerYear + monthIndex) * TicksPerMonth
            + (day - 1) * TicksPerDay

getFullYear(t) == (t \div TicksPerMonth) \div MonthsPerYear
getMonth(t) == (t \div TicksPerMonth) % MonthsPerYear
getDate(t) == ((t \div TicksPerDay) % DaysPerMonth) + 1

\* d.setHours(0, 0, 0, 0)
StartOfDay(t) == t - (t % TicksPerDay)

\* the first instant of the model: start of December's last day, StartYear
StartNow == DateOf(StartYear + 1, 0, 1) - TicksPerDay
MaxNow == StartNow + MaxTicks

(***************************************************************************)
(* State.                                                                  *)
(***************************************************************************)
VARIABLES
    now,        \* the wall clock (new Date()), an instant
    users,      \* users collection, in insertion (natural) order
    costs,      \* costs collection, in insertion (natural) order
    reports,    \* reports collection, in insertion (natural) order
    req,        \* GET /report requests: position and locals of each handler
    add,        \* POST /add (cost) requests: position and locals
    addUser,    \* POST /add (user) requests: position and locals
    served,     \* history: {userid, year, month, costs} of every 200 answer
                \* given to a request that classified its month as past
    getUser,    \* the GET /users/:id request: position and locals
    getLogs,    \* the GET /logs request: position and locals
    logs,       \* logs collection, in insertion (natural) order
    logCreates  \* the Log.create calls issued so far, in the order issued

vars == <<now, users, costs, reports, req, add, addUser, served,
         getUser, getLogs, logs, logCreates>>

ReportReqs == 1..NumReportReqs
CostReqs == 1..NumCostReqs

NoDoc == [none |-> TRUE]
NoQuery == [id |-> Undefined, userid |-> Undefined,
            year |-> Undefined, month |-> Undefined]

\* a GET /report handler that is not running
IdleReport ==
    [pc |-> "idle", query |-> NoQuery, began |-> 0,
     numericUserId |-> 0, numericYear |-> 0, numericMonth |-> 0,
     isPastMonthBool |-> FALSE,
     cachedReport |-> NoDoc, fetched |-> 0, report |-> NoDoc,
     calls |-> <<>>, failed |-> FALSE,
     sent |-> 0, status |-> 0, body |-> NoDoc]

\* res.status(code).json({ id: code, message })
ErrorBody(code, message) == [id |-> code, message |-> message]

\* return res.status(code).json(body): one more response is sent and the
\* handler ends
Respond(r, code, body) ==
    [r EXCEPT !.pc = "done", !.sent = @ + 1, !.status = code, !.body = body]

\* the catch block of a handler: whatever is thrown ends here
InternalError(r) == Respond(r, 500, ErrorBody(500, "Internal server error."))

\* the store rejects the call the handler awaits (the await throws)
Rejected(r) == [r EXCEPT !.failed = TRUE]

\* the handler issues a store call and suspends at its await
Await(r, call) == [r EXCEPT !.pc = call, !.calls = Append(@, call)]

(***************************************************************************)
(* routes/report.routes.js                                                 *)
(***************************************************************************)
\* (mutant) the month that has begun counts as past
isPastMonthInclusive(year, month) ==
    DateOf(year, month - 1, 1) <= DateOf(getFullYear(now), getMonth(now), 1)

\* (mutant) the year and the month are compared separately: a month number
\* below the current one counts as past in any year
isPastMonthByParts(year, month) ==
    year < getFullYear(now) \/ month - 1 < getMonth(now)

\* isPastMonth(year, month), reading the wall clock
isPastMonth(year, month) ==
    LET currentMonthStart == DateOf(getFullYear(now), getMonth(now), 1)
        targetMonthStart == DateOf(year, month - 1, 1)
    IN  targetMonthStart < currentMonthStart

\* const userIdValue = userid ?? id
UserIdValue(q) == IF q.userid.t \in {"undefined", "null"} THEN q.id ELSE q.userid

\* (mutant) the range of the month is checked before the number shapes
ValidateQueryRangeFirst(q) ==
    IF IsFalsy(UserIdValue(q)) \/ IsFalsy(q.year) \/ IsFalsy(q.month)
    THEN "Missing required fields."
    ELSE IF IsGreaterThan(ToNumber(q.month), 12)
    THEN "Month number must be between 1 and 12."
    ELSE IF \/ ~IsInteger(ToNumber(UserIdValue(q)))
            \/ IsNotPositive(ToNumber(UserIdValue(q)))
            \/ ~IsInteger(ToNumber(q.year)) \/ IsNotPositive(ToNumber(q.year))
            \/ ~IsInteger(ToNumber(q.month)) \/ IsNotPositive(ToNumber(q.month))
    THEN "User ID, year and month must be positive integers."
    ELSE ""

\* the checks of the query parameters, in the order of the code: the
\* message of the first failing check, or "" when all pass
ValidateQuery(q) ==
    LET numericUserId == ToNumber(UserIdValue(q))
        numericYear == ToNumber(q.year)
        numericMonth == ToNumber(q.month)
    IN  IF IsFalsy(UserIdValue(q)) \/ IsFalsy(q.year) \/ IsFalsy(q.month)
        THEN "Missing required fields."
        ELSE IF \/ ~IsInteger(numericUserId) \/ IsNotPositive(numericUserId)
                \/ ~IsInteger(numericYear) \/ IsNotPositive(numericYear)
                \/ ~IsInteger(numericMonth) \/ IsNotPositive(numericMonth)
        THEN "User ID, year and month must be positive integers."
        ELSE IF IsGreaterThan(numericMonth, 12)
        THEN "Month number must be between 1 and 12."
        ELSE ""

\* (mutant) the lookup filters on the query strings, which equal no stored
\* number: it never finds a document
FindOneReportNoMatch(userid, year, month) == NoDoc

\* Report.findOne({ userid, year, month }): the first matching document
\* in natural order, or NoDoc
FindOneReport(userid, year, month) ==
    LET hits == {i \in 1..Len(reports) :
                    /\ reports[i].userid = userid
                    /\ reports[i].year = year
                    /\ reports[i].month = month}
    IN  IF hits = {} THEN NoDoc
        ELSE reports[CHOOSE i \in hits : \A j \in hits : i <= j]

\* Cost.find({ userid }): the matching documents in natural order
FindCosts(userid) == SelectSeq(costs, LAMBDA c : c.userid = userid)

\* Object.fromEntries(CATEGORIES.map(cat => [cat, []]))
EmptyGroups == [cat \in {CATEGORIES[i] : i \in 1..Len(CATEGORIES)} |-> <<>>]

\* (mutant) the month index of the date is compared with the month number
InTargetMonthZeroBased(date, year, month) ==
    getFullYear(date) = year /\ getMonth(date) = month

\* the check that a cost is in the target month
InTargetMonth(date, year, month) ==
    getFullYear(date) = year /\ (getMonth(date) + 1) = month

\* one pass of the for loop over the fetched costs.  The result is
\* [threw, groups]: groupedCats[cost.category]?.push(...) throws a
\* TypeError when the key is inherited from Object.prototype.
RECURSIVE GroupCosts(_, _, _, _)
GroupCosts(found, year, month, groupedCats) ==
    IF found = <<>> THEN [threw |-> FALSE, groups |-> groupedCats]
    ELSE
        LET cost == Head(found)
            date == cost.date
            entry == [sum |-> cost.sum,
                      description |-> cost.description,
                      day |-> getDate(date)]
        IN  IF InTargetMonth(date, year, month)
            THEN IF cost.category \in DOMAIN groupedCats
                 THEN GroupCosts(Tail(found), year, month,
                        [groupedCats EXCEPT
                            ![cost.category] = Append(@, entry)])
                 ELSE IF cost.category \in ObjectPrototypeKeys
                 THEN [threw |-> TRUE, groups |-> groupedCats]
                 ELSE GroupCosts(Tail(found), year, month, groupedCats)
            ELSE GroupCosts(Tail(found), year, month, groupedCats)

\* (mutant) only the categories that have costs are listed
CostsByCategoryNonEmpty(groupedCats) ==
    SelectSeq([i \in 1..Len(CATEGORIES) |->
                    (CATEGORIES[i] :> groupedCats[CATEGORIES[i]])],
              LAMBDA e : \E cat \in DOMAIN e : e[cat] # <<>>)

\* (mutant) every list is sorted by sum
CostsByCategorySortedBySum(groupedCats) ==
    [i \in 1..Len(CATEGORIES) |->
        (CATEGORIES[i] :>
            SortSeq(groupedCats[CATEGORIES[i]],
                    LAMBDA a, b : a.sum.num < b.sum.num))]

\* CATEGORIES.map(cat => ({ [cat]: groupedCats[cat] }))
CostsByCategory(groupedCats) ==
    [i \in 1..Len(CATEGORIES) |-> (CATEGORIES[i] :> groupedCats[CATEGORIES[i]])]

\* const report = { userid, year, month, costs }
BuildReport(userid, year, month, groupedCats) ==
    [userid |-> userid, year |-> year, month |-> month,
     costs |-> CostsByCategory(groupedCats)]

\* the validators of the Report schema, run by Report.create
ReportSchemaValid(report) ==
    /\ report.userid > 0
    /\ report.year > 0
    /\ report.month >= 1 /\ report.month <= 12
    /\ report.costs # NoDoc

\* the document Report.create(report) stores: the report and a fresh _id
ReportDoc(report) ==
    [_id |-> Len(reports) + 1, userid |-> report.userid,
     year |-> report.year, month |-> report.month, costs |-> report.costs]

\* history of the 200 answers of past-month requests
Serve(r, body) ==
    IF r.isPastMonthBool
    THEN served \cup {[userid |-> r.numericUserId, year |-> r.numericYear,
                       month |-> r.numericMonth, costs |-> body.costs]}
    ELSE served

\* User.exists({ id }): some stored User document has this id
UserExists(id) == \E i \in 1..Len(users) : users[i].id = id

\* A request arrives: the handler runs to its first await.  Parameter
\* checks that fail answer 400 at once; otherwise User.exists is issued.
ReportStart(p, q) ==
    /\ req[p].pc \in {"idle", "done"}
    /\ LET r == [IdleReport EXCEPT !.query = q, !.began = Len(costs)]
           message == ValidateQuery(q)
       IN  req' = [req EXCEPT ![p] =
                IF message # ""
                THEN Respond(r, 400, ErrorBody(400, message))
                ELSE Await([r EXCEPT
                        !.numericUserId = IntegerOf(ToNumber(UserIdValue(q))),
                        !.numericYear = IntegerOf(ToNumber(q.year)),
                        !.numericMonth = IntegerOf(ToNumber(q.month))],
                     "User.exists")]
    /\ UNCHANGED <<now, users, costs, reports, add, addUser, served,
                 getUser, getLogs, logs, logCreates>>

\* (mutant) the existence check is taken as passed whatever it returns
ReportUserExistsAlways(p) ==
    /\ req[p].pc = "User.exists"
    /\ req' = [req EXCEPT ![p] =
            Await([req[p] EXCEPT !.isPastMonthBool =
                        isPastMonth(req[p].numericYear, req[p].numericMonth)],
                  IF isPastMonth(req[p].numericYear, req[p].numericMonth)
                  THEN "Report.findOne" ELSE "Cost.find")]
    /\ UNCHANGED <<now, users, costs, reports, add, addUser, served,
                 getUser, getLogs, logs, logCreates>>

\* (mutant) the cache lookup is issued whatever the classification
ReportUserExistsAlwaysLookup(p) ==
    /\ req[p].pc = "User.exists"
    /\ \E ok \in BOOLEAN :
        LET r == req[p]
            classified == [r EXCEPT !.isPastMonthBool =
                            isPastMonth(r.numericYear, r.numericMonth)]
        IN  req' = [req EXCEPT ![p] =
                IF ~ok THEN InternalError(Rejected(r))
                ELSE IF ~UserExists(r.numericUserId)
                THEN Respond(r, 400, ErrorBody(400,
                        "User " \o ToString(r.numericUserId)
                            \o " does not exist."))
                ELSE Await(classified, "Report.findOne")]
    /\ UNCHANGED <<now, users, costs, reports, add, addUser, served,
                 getUser, getLogs, logs, logCreates>>

\* User.exists returns: a missing user answers 400; otherwise the month
\* is classified and, for a past month, the cache lookup is issued,
\* else the cost fetch.
ReportUserExists(p) ==
    /\ req[p].pc = "User.exists"
    /\ \E ok \in BOOLEAN :
        LET r == req[p]
            userExists == UserExists(r.numericUserId)
            isPastMonthBool == isPastMonth(r.numericYear, r.numericMonth)
            classified == [r EXCEPT !.isPastMonthBool = isPastMonthBool]
        IN  req' = [req EXCEPT ![p] =
                IF ~ok THEN InternalError(Rejected(r))
                ELSE IF ~userExists
                THEN Respond(r, 400, ErrorBody(400,
                        "User " \o ToString(r.numericUserId)
                            \o " does not exist."))
                ELSE IF isPastMonthBool
                THEN Await(classified, "Report.findOne")
                ELSE Await(classified, "Cost.find")]
    /\ UNCHANGED <<now, users, costs, reports, add, addUser, served,
                 getUser, getLogs, logs, logCreates>>

\* (mutant) a rejected lookup is swallowed and taken as a miss
ReportFindOneSwallow(p) ==
    /\ req[p].pc = "Report.findOne"
    /\ \E ok \in BOOLEAN :
        LET r == req[p]
            cachedReport ==
                FindOneReport(r.numericUserId, r.numericYear, r.numericMonth)
            hit == ok /\ cachedReport # NoDoc
        IN  /\ req' = [req EXCEPT ![p] =
                    IF ~ok THEN Await(Rejected(r), "Cost.find")
                    ELSE IF cachedReport # NoDoc
                    THEN Respond([r EXCEPT !.cachedReport = cachedReport],
                                 200, cachedReport)
                    ELSE Await(r, "Cost.find")]
            /\ served' = IF hit THEN Serve(r, cachedReport) ELSE served
    /\ UNCHANGED <<now, users, costs, reports, add, addUser,
                 getUser, getLogs, logs, logCreates>>

\* (mutant) a found report does not end the handler: the costs are
\* fetched and the report is computed again
ReportFindOneNoReturn(p) ==
    /\ req[p].pc = "Report.findOne"
    /\ \E ok \in BOOLEAN :
        req' = [req EXCEPT ![p] =
                    IF ~ok THEN InternalError(Rejected(req[p]))
                    ELSE Await(req[p], "Cost.find")]
    /\ UNCHANGED <<now, users, costs, reports, add, addUser, served,
                 getUser, getLogs, logs, logCreates>>

\* (mutant) a found report is sent without `return`: the handler goes on
\* to fetch the costs and answers again
ReportFindOneSendsAndGoesOn(p) ==
    /\ req[p].pc = "Report.findOne"
    /\ \E ok \in BOOLEAN :
        LET r == req[p]
            cachedReport ==
                FindOneReport(r.numericUserId, r.numericYear, r.numericMonth)
            hit == ok /\ cachedReport # NoDoc
        IN  /\ req' = [req EXCEPT ![p] =
                    IF ~ok THEN InternalError(Rejected(r))
                    ELSE IF cachedReport # NoDoc
                    THEN Await(Respond([r EXCEPT
                                    !.cachedReport = cachedReport],
                                 200, cachedReport), "Cost.find")
                    ELSE Await(r, "Cost.find")]
            /\ served' = IF hit THEN Serve(r, cachedReport) ELSE served
    /\ UNCHANGED <<now, users, costs, reports, add, addUser,
                 getUser, getLogs, logs, logCreates>>

\* Report.findOne returns: a cached report is the answer; on a miss the
\* cost fetch is issued.
ReportFindOne(p) ==
    /\ req[p].pc = "Report.findOne"
    /\ \E ok \in BOOLEAN :
        LET r == req[p]
            cachedReport ==
                FindOneReport(r.numericUserId, r.numericYear, r.numericMonth)
            hit == ok /\ cachedReport # NoDoc
        IN  /\ req' = [req EXCEPT ![p] =
                    IF ~ok THEN InternalError(Rejected(r))
                    ELSE IF cachedReport # NoDoc
                    THEN Respond([r EXCEPT !.cachedReport = cachedReport],
                                 200, cachedReport)
                    ELSE Await(r, "Cost.find")]
            /\ served' = IF hit THEN Serve(r, cachedReport) ELSE served
    /\ UNCHANGED <<now, users, costs, reports, add, addUser,
                 getUser, getLogs, logs, logCreates>>

\* (mutant) the month is classified again when the costs have been
\* fetched, and that value gates the insert
ReportFindClassifiesAgain(p) ==
    /\ req[p].pc = "Cost.find"
    /\ \E ok \in BOOLEAN :
        LET r == req[p]
            grouped == GroupCosts(FindCosts(r.numericUserId),
                            r.numericYear, r.numericMonth, EmptyGroups)
            report == BuildReport(r.numericUserId, r.numericYear,
                            r.numericMonth, grouped.groups)
            built == [r EXCEPT !.fetched = Len(costs), !.report = report]
            pastNow == isPastMonth(r.numericYear, r.numericMonth)
            answered == ok /\ ~grouped.threw /\ ~pastNow
        IN  /\ req' = [req EXCEPT ![p] =
                    IF ~ok THEN InternalError(Rejected(r))
                    ELSE IF grouped.threw THEN InternalError(r)
                    ELSE IF pastNow
                    THEN Await(built, "Report.create")
                    ELSE Respond(built, 200, report)]
            /\ served' = IF answered THEN Serve(r, report) ELSE served
    /\ UNCHANGED <<now, users, costs, reports, add, addUser,
                 getUser, getLogs, logs, logCreates>>

\* Cost.find returns: the costs are grouped and the report is built; a
\* past month issues the cache insert, any other month is answered.
ReportFind(p) ==
    /\ req[p].pc = "Cost.find"
    /\ \E ok \in BOOLEAN :
        LET r == req[p]
            grouped == GroupCosts(FindCosts(r.numericUserId),
                            r.numericYear, r.numericMonth, EmptyGroups)
            report == BuildReport(r.numericUserId, r.numericYear,
                            r.numericMonth, grouped.groups)
            built == [r EXCEPT !.fetched = Len(costs), !.report = report]
            answered == ok /\ ~grouped.threw /\ ~r.isPastMonthBool
        IN  /\ req' = [req EXCEPT ![p] =
                    IF ~ok THEN InternalError(Rejected(r))
                    ELSE IF grouped.threw THEN InternalError(r)
                    ELSE IF r.isPastMonthBool
                    THEN Await(built, "Report.create")
                    ELSE Respond(built, 200, report)]
            /\ served' = IF answered THEN Serve(r, report) ELSE served
    /\ UNCHANGED <<now, users, costs, reports, add, addUser,
                 getUser, getLogs, logs, logCreates>>

\* (mutant) the insert is not awaited: the report is answered whether or
\* not the document was stored
ReportCreateNotAwaited(p) ==
    /\ req[p].pc = "Report.create"
    /\ \E ok \in BOOLEAN :
        LET r == req[p]
        IN  /\ req' = [req EXCEPT ![p] =
                    Respond(IF ok THEN r ELSE Rejected(r), 200, r.report)]
            /\ reports' = IF ok THEN Append(reports, ReportDoc(r.report))
                          ELSE reports
            /\ served' = Serve(r, r.report)
    /\ UNCHANGED <<now, users, costs, add, addUser,
                 getUser, getLogs, logs, logCreates>>

\* (mutant) the insert is issued twice: two documents are stored
ReportCreateTwice(p) ==
    /\ req[p].pc = "Report.create"
    /\ \E ok \in BOOLEAN :
        LET r == req[p]
            stored == ok /\ ReportSchemaValid(r.report)
        IN  /\ req' = [req EXCEPT ![p] =
                    IF stored THEN Respond(r, 200, r.report)
                    ELSE IF ~ok THEN InternalError(Rejected(r))
                    ELSE InternalError(r)]
            /\ reports' = IF stored
                          THEN reports \o <<ReportDoc(r.report),
                                            ReportDoc(r.report)>>
                          ELSE reports
            /\ served' = IF stored THEN Serve(r, r.report) ELSE served
    /\ UNCHANGED <<now, users, costs, add, addUser,
                 getUser, getLogs, logs, logCreates>>

\* Report.create returns: the document is stored and the report answered;
\* a rejected insert stores nothing and ends in the catch block.
ReportCreate(p) ==
    /\ req[p].pc = "Report.create"
    /\ \E ok \in BOOLEAN :
        LET r == req[p]
            stored == ok /\ ReportSchemaValid(r.report)
        IN  /\ req' = [req EXCEPT ![p] =
                    IF stored THEN Respond(r, 200, r.report)
                    ELSE IF ~ok THEN InternalError(Rejected(r))
                    ELSE InternalError(r)]
            /\ reports' = IF stored THEN Append(reports, ReportDoc(r.report))
                          ELSE reports
            /\ served' = IF stored THEN Serve(r, r.report) ELSE served
    /\ UNCHANGED <<now, users, costs, add, addUser,
                 getUser, getLogs, logs, logCreates>>

(***************************************************************************)
(* models/cost.model.js and routes/add_cost.routes.js                      *)
(***************************************************************************)
NoBody == [description |-> Undefined, category |-> Undefined,
           userid |-> Undefined, sum |-> Undefined, date |-> Undefined]

\* a date string of the request body: the text of instant `at`
DateString(at) == [t |-> "date", at |-> at]

\* a POST /add (cost) handler that is not running
IdleCost ==
    [pc |-> "idle", body |-> NoBody, cost |-> NoDoc,
     failed |-> FALSE, status |-> 0, response |-> NoDoc]

LowerCaseOf ==
    "A" :> "a" @@ "C" :> "c" @@ "D" :> "d" @@ "E" :> "e" @@ "F" :> "f" @@
    "H" :> "h" @@ "O" :> "o" @@ "P" :> "p" @@ "S" :> "s" @@ "T" :> "t"

\* String.prototype.toLowerCase
ToLowerCase(s) ==
    [i \in 1..Len(s) |->
        IF s[i] \in DOMAIN LowerCaseOf THEN LowerCaseOf[s[i]] ELSE s[i]]

\* the characters of a category name, and the name of a character string
CategoryChars ==
    "food" :> <<"f", "o", "o", "d">> @@
    "health" :> <<"h", "e", "a", "l", "t", "h">> @@
    "housing" :> <<"h", "o", "u", "s", "i", "n", "g">> @@
    "sports" :> <<"s", "p", "o", "r", "t", "s">> @@
    "education" :> <<"e", "d", "u", "c", "a", "t", "i", "o", "n">>

\* CATEGORIES.includes(categoryTrimmed)
CategoriesInclude(chars) ==
    \E i \in 1..Len(CATEGORIES) : CategoryChars[CATEGORIES[i]] = chars

CategoryNamed(chars) ==
    CHOOSE cat \in DOMAIN CategoryChars : CategoryChars[cat] = chars

\* the string a sequence of characters spells (template literal)
RECURSIVE TextOf(_)
TextOf(chars) ==
    IF chars = <<>> THEN "" ELSE Head(chars) \o TextOf(Tail(chars))

\* CATEGORIES.join(', ')
RECURSIVE JoinFrom(_)
JoinFrom(i) ==
    IF i = Len(CATEGORIES) THEN CATEGORIES[i]
    ELSE CATEGORIES[i] \o ", " \o JoinFrom(i + 1)

\* the message of the category check
CategoryMessage(categoryTrimmed) ==
    "Category '" \o TextOf(categoryTrimmed)
        \o "' is not in the list of accepted categories. "
        \o "The accepted categories are: " \o JoinFrom(1) \o "."

\* value?.trim(): undefined for undefined and null, a TypeError for any
\* other value that is not a string
TrimmedOf(v) ==
    IF v.t = "string" THEN Str(Trim(v.s))
    ELSE IF v.t \in {"undefined", "null"} THEN Undefined
    ELSE [t |-> "TypeError"]

\* date ? new Date(date) : new Date(); NaN stands for an Invalid Date
RequestDate(date) ==
    IF date.t = "date" THEN Num(date.at)
    ELSE IF IsFalsy(date) THEN Num(now)
    ELSE NaN

\* the date validator of the Cost schema, run when the document is saved
CostDateValid(value) == value >= StartOfDay(now)

\* the validators of the Cost schema, run by cost.save()
CostSchemaValid(cost) ==
    /\ cost.category \in {CATEGORIES[i] : i \in 1..Len(CATEGORIES)}
    /\ IsInteger(cost.userid) /\ cost.userid.num >= cost.userid.den
    /\ ~cost.sum.nan /\ cost.sum.num >= 0
    /\ CostDateValid(cost.date)

\* (mutant) the sum is checked before the user id
ValidateCostSumFirst(b) ==
    LET descriptionTrimmed == TrimmedOf(b.description)
        categoryTrimmed ==
            IF TrimmedOf(b.category).t = "string"
            THEN Str(ToLowerCase(TrimmedOf(b.category).s))
            ELSE TrimmedOf(b.category)
        numericUserId == ToNumber(b.userid)
        numericSum == ToNumber(b.sum)
        requestDate == RequestDate(b.date)
        startOfToday == StartOfDay(now)
    IN  IF "TypeError" \in {descriptionTrimmed.t, categoryTrimmed.t}
        THEN "TypeError"
        ELSE IF \/ IsFalsy(descriptionTrimmed) \/ IsFalsy(categoryTrimmed)
                \/ b.userid.t = "undefined" \/ b.sum.t = "undefined"
        THEN "Missing required fields."
        ELSE IF ~CategoriesInclude(categoryTrimmed.s)
        THEN CategoryMessage(categoryTrimmed.s)
        ELSE IF b.sum.t = "null" \/ numericSum.nan \/ numericSum.num < 0
        THEN "Sum must be a non-negative finite number."
        ELSE IF ~IsInteger(numericUserId) \/ IsNotPositive(numericUserId)
        THEN "User ID must be a positive integer."
        ELSE IF requestDate.nan
        THEN "Invalid date format."
        ELSE IF requestDate.num < startOfToday
        THEN "Date cannot be in the past."
        ELSE ""

\* (mutant) the date is compared with the current instant
ValidateCostAgainstNow(b) ==
    LET descriptionTrimmed == TrimmedOf(b.description)
        categoryTrimmed ==
            IF TrimmedOf(b.category).t = "string"
            THEN Str(ToLowerCase(TrimmedOf(b.category).s))
            ELSE TrimmedOf(b.category)
        numericUserId == ToNumber(b.userid)
        numericSum == ToNumber(b.sum)
        requestDate == RequestDate(b.date)
        startOfToday == StartOfDay(now)
    IN  IF "TypeError" \in {descriptionTrimmed.t, categoryTrimmed.t}
        THEN "TypeError"
        ELSE IF \/ IsFalsy(descriptionTrimmed) \/ IsFalsy(categoryTrimmed)
                \/ b.userid.t = "undefined" \/ b.sum.t = "undefined"
        THEN "Missing required fields."
        ELSE IF ~CategoriesInclude(categoryTrimmed.s)
        THEN CategoryMessage(categoryTrimmed.s)
        ELSE IF ~IsInteger(numericUserId) \/ IsNotPositive(numericUserId)
        THEN "User ID must be a positive integer."
        ELSE IF b.sum.t = "null" \/ numericSum.nan \/ numericSum.num < 0
        THEN "Sum must be a non-negative finite number."
        ELSE IF requestDate.nan
        THEN "Invalid date format."
        ELSE IF requestDate.num < now
        THEN "Date cannot be in the past."
        ELSE ""

\* the route's field checks, in the order of the code: the message of the
\* first failing check, "TypeError" when the code throws, "" when all pass
ValidateCost(b) ==
    LET descriptionTrimmed == TrimmedOf(b.description)
        categoryTrimmed ==
            IF TrimmedOf(b.category).t = "string"
            THEN Str(ToLowerCase(TrimmedOf(b.category).s))
            ELSE TrimmedOf(b.category)
        numericUserId == ToNumber(b.userid)
        numericSum == ToNumber(b.sum)
        requestDate == RequestDate(b.date)
        startOfToday == StartOfDay(now)
    IN  IF "TypeError" \in {descriptionTrimmed.t, categoryTrimmed.t}
        THEN "TypeError"
        ELSE IF \/ IsFalsy(descriptionTrimmed) \/ IsFalsy(categoryTrimmed)
                \/ b.userid.t = "undefined" \/ b.sum.t = "undefined"
        THEN "Missing required fields."
        ELSE IF ~CategoriesInclude(categoryTrimmed.s)
        THEN CategoryMessage(categoryTrimmed.s)
        ELSE IF ~IsInteger(numericUserId) \/ IsNotPositive(numericUserId)
        THEN "User ID must be a positive integer."
        ELSE IF b.sum.t = "null" \/ numericSum.nan \/ numericSum.num < 0
        THEN "Sum must be a non-negative finite number."
        ELSE IF requestDate.nan
        THEN "Invalid date format."
        ELSE IF requestDate.num < startOfToday
        THEN "Date cannot be in the past."
        ELSE ""

\* new Cost({ description, category, userid, sum, date })
NewCost(b) ==
    [description |-> Trim(b.description.s),
     category |-> CategoryNamed(ToLowerCase(Trim(b.category.s))),
     userid |-> ToNumber(b.userid),
     sum |-> ToNumber(b.sum),
     date |-> RequestDate(b.date).num]

\* fewer than `cap` costs are stored or about to be stored
CostRoom(cap) ==
    Len(costs) + Cardinality({a \in CostReqs :
        add[a].pc \in {"User.exists", "Cost.save"}}) < cap

CostRespond(r, code, response) ==
    [r EXCEPT !.pc = "done", !.status = code, !.response = response]

CostInternalError(r) ==
    CostRespond(r, 500, ErrorBody(500, "Internal server error."))

\* A request arrives: the field checks run, the cost document is built
\* from the checked values and User.exists is issued.
CostStart(a, b) ==
    /\ add[a].pc \in {"idle", "done"}
    /\ LET r == [IdleCost EXCEPT !.body = b]
           message == ValidateCost(b)
       IN  add' = [add EXCEPT ![a] =
                IF message = "TypeError" THEN CostInternalError(r)
                ELSE IF message # ""
                THEN CostRespond(r, 400, ErrorBody(400, message))
                ELSE [r EXCEPT !.pc = "User.exists", !.cost = NewCost(b)]]
    /\ UNCHANGED <<now, users, costs, reports, req, addUser, served,
                 getUser, getLogs, logs, logCreates>>

\* (mutant) the existence check is taken as passed whatever it returns
CostUserExistsAlways(a) ==
    /\ add[a].pc = "User.exists"
    /\ \E ok \in BOOLEAN :
        LET r == add[a]
        IN  add' = [add EXCEPT ![a] =
                IF ~ok THEN CostInternalError([r EXCEPT !.failed = TRUE])
                ELSE IF ~CostSchemaValid(r.cost) THEN CostInternalError(r)
                ELSE [r EXCEPT !.pc = "Cost.save"]]
    /\ UNCHANGED <<now, users, costs, reports, req, addUser, served,
                 getUser, getLogs, logs, logCreates>>

\* User.exists returns: a missing user answers 400; otherwise cost.save()
\* validates the document against the schema and issues the insert.
CostUserExists(a) ==
    /\ add[a].pc = "User.exists"
    /\ \E ok \in BOOLEAN :
        LET r == add[a]
            userExists ==
                IsInteger(r.cost.userid) /\ UserExists(IntegerOf(r.cost.userid))
        IN  add' = [add EXCEPT ![a] =
                IF ~ok THEN CostInternalError([r EXCEPT !.failed = TRUE])
                ELSE IF ~userExists
                THEN CostRespond(r, 400, ErrorBody(400,
                        "User " \o ToString(IntegerOf(r.cost.userid))
                            \o " does not exist."))
                ELSE IF ~CostSchemaValid(r.cost) THEN CostInternalError(r)
                ELSE [r EXCEPT !.pc = "Cost.save"]]
    /\ UNCHANGED <<now, users, costs, reports, req, addUser, served,
                 getUser, getLogs, logs, logCreates>>

\* the insert of cost.save() returns: the document is stored and answered
CostSave(a) ==
    /\ add[a].pc = "Cost.save"
    /\ \E ok \in BOOLEAN :
        LET r == add[a]
            doc == [description |-> r.cost.description,
                    category |-> r.cost.category,
                    userid |-> IntegerOf(r.cost.userid),
                    sum |-> r.cost.sum, date |-> r.cost.date]
        IN  /\ add' = [add EXCEPT ![a] =
                    IF ok THEN CostRespond(r, 201, doc)
                    ELSE CostInternalError([r EXCEPT !.failed = TRUE])]
            /\ costs' = IF ok THEN Append(costs, doc) ELSE costs
    /\ UNCHANGED <<now, users, reports, req, addUser, served,
                 getUser, getLogs, logs, logCreates>>

(***************************************************************************)
(* The users service: the User model and POST /api/add (user)              *)
(***************************************************************************)
UserReqs == 1..NumUserReqs

NoUserBody == [id |-> Undefined, first_name |-> Undefined,
               last_name |-> Undefined, birthday |-> Undefined]

\* a POST /add (user) handler that is not running
IdleUser ==
    [pc |-> "idle", body |-> NoUserBody, numericId |-> 0, user |-> NoDoc,
     failed |-> FALSE, status |-> 0, response |-> NoDoc]

\* a stored User document
UserDoc(id, first_name, last_name, birthday) ==
    [id |-> id, first_name |-> first_name, last_name |-> last_name,
     birthday |-> birthday]

\* new Date(birthday); NaN stands for an Invalid Date
BirthdayDate(birthday) ==
    IF birthday.t = "date" THEN Num(birthday.at) ELSE NaN

\* the route's field checks, in the order of the code: the message of the
\* first failing check, "TypeError" when the code throws, "" when all pass
ValidateUser(b) ==
    LET firstNameTrimmed == TrimmedOf(b.first_name)
        lastNameTrimmed == TrimmedOf(b.last_name)
        numericId == ToNumber(b.id)
        birthdayDate == BirthdayDate(b.birthday)
        startOfToday == StartOfDay(now)
    IN  IF "TypeError" \in {firstNameTrimmed.t, lastNameTrimmed.t}
        THEN "TypeError"
        ELSE IF \/ b.id.t = "undefined"
                \/ IsFalsy(firstNameTrimmed) \/ IsFalsy(lastNameTrimmed)
                \/ b.birthday.t = "undefined"
        THEN "Missing required fields."
        ELSE IF ~IsInteger(numericId) \/ IsNotPositive(numericId)
        THEN "User ID must be a positive integer."
        ELSE IF birthdayDate.nan
        THEN "Invalid birthday format."
        ELSE IF birthdayDate.num > startOfToday
        THEN "Birthday cannot be in the future."
        ELSE ""

\* new User({ id, first_name, last_name, birthday })
NewUser(b) ==
    UserDoc(IntegerOf(ToNumber(b.id)), Trim(b.first_name.s),
            Trim(b.last_name.s), BirthdayDate(b.birthday).num)

\* the validators of the User schema, run by user.save()
UserSchemaValid(user) ==
    /\ user.id > 0
    /\ user.first_name # <<>>
    /\ user.last_name # <<>>
    /\ user.birthday <= StartOfDay(now)

UserRespond(r, code, response) ==
    [r EXCEPT !.pc = "done", !.status = code, !.response = response]

UserInternalError(r) ==
    UserRespond(r, 500, ErrorBody(500, "Internal server error."))

\* A request arrives: the field checks run and User.exists is issued.
UserStart(u, b) ==
    /\ addUser[u].pc \in {"idle", "done"}
    /\ LET r == [IdleUser EXCEPT !.body = b]
           message == ValidateUser(b)
       IN  addUser' = [addUser EXCEPT ![u] =
                IF message = "TypeError" THEN UserInternalError(r)
                ELSE IF message # ""
                THEN UserRespond(r, 400, ErrorBody(400, message))
                ELSE [r EXCEPT !.pc = "User.exists",
                               !.numericId = IntegerOf(ToNumber(b.id))]]
    /\ UNCHANGED <<now, users, costs, reports, req, add, served,
                 getUser, getLogs, logs, logCreates>>

\* User.exists returns: a taken id answers 409; otherwise the document is
\* built, user.save() validates it against the schema and issues the insert.
UserExistsReturns(u) ==
    /\ addUser[u].pc = "User.exists"
    /\ \E ok \in BOOLEAN :
        LET r == addUser[u]
            userExists == UserExists(r.numericId)
            user == NewUser(r.body)
        IN  addUser' = [addUser EXCEPT ![u] =
                IF ~ok THEN UserInternalError([r EXCEPT !.failed = TRUE])
                ELSE IF userExists
                THEN UserRespond(r, 409, ErrorBody(409,
                        "User " \o ToString(r.numericId)
                            \o " already exists."))
                ELSE IF ~UserSchemaValid(user) THEN UserInternalError(r)
                ELSE [r EXCEPT !.pc = "User.save", !.user = user]]
    /\ UNCHANGED <<now, users, costs, reports, req, add, served,
                 getUser, getLogs, logs, logCreates>>

\* (mutant) the users collection has no unique index on id
UserSaveNoIndex(u) ==
    /\ addUser[u].pc = "User.save"
    /\ \E ok \in BOOLEAN :
        LET r == addUser[u]
        IN  /\ addUser' = [addUser EXCEPT ![u] =
                    IF ok THEN UserRespond(r, 201, r.user)
                    ELSE UserInternalError([r EXCEPT !.failed = TRUE])]
            /\ users' = IF ok THEN Append(users, r.user) ELSE users
    /\ UNCHANGED <<now, costs, reports, req, add, served,
                 getUser, getLogs, logs, logCreates>>

\* the insert of user.save() returns: the document is stored and answered
\* 201; the unique index on id rejects the insert of a taken id (duplicate
\* key error), which ends in the catch block like any other rejection.
UserSave(u) ==
    /\ addUser[u].pc = "User.save"
    /\ \E ok \in BOOLEAN :
        LET r == addUser[u]
            duplicateKey == UserExists(r.user.id)
            stored == ok /\ ~duplicateKey
        IN  /\ addUser' = [addUser EXCEPT ![u] =
                    IF stored THEN UserRespond(r, 201, r.user)
                    ELSE IF ~ok
                    THEN UserInternalError([r EXCEPT !.failed = TRUE])
                    ELSE UserInternalError(r)]
            /\ users' = IF stored THEN Append(users, r.user) ELSE users
    /\ UNCHANGED <<now, costs, reports, req, add, served,
                 getUser, getLogs, logs, logCreates>>

(***************************************************************************)
(* utils/logger.js and utils/createServiceApp.js: the log writes of a      *)
(* request.  Of a log document, the fields time, method, path, message and *)
(* status are kept.                                                        *)
(***************************************************************************)
\* the logDoc of logEndpointAccess(req, message)
AccessLogDoc(method, path, message) ==
    [time |-> now, method |-> method, path |-> path, message |-> message]

\* the logDoc the 'finish' listener of the logging middleware builds
FinishLogDoc(method, path, status) ==
    [time |-> now, method |-> method, path |-> path, status |-> status,
     message |-> "HTTP request received."]

\* saveLogToDb(logDoc): Log.create is issued and not awaited
saveLogToDb(logDoc) ==
    Append(logCreates, [doc |-> logDoc, state |-> "pending"])

\* a request that arrives now keeps the log writes of the behaviour
\* within `cap`: every request writes an access log and a request log
LogRoom(cap) ==
    Len(logCreates)
        + Cardinality({h \in {getUser, getLogs} : h.pc \notin {"idle", "done"}})
        + 2 <= cap

\* (mutant) saveLogToDb has no .catch and the handler awaits it: a
\* rejected log write ends a running handler of the request in its catch
\* block
LogCreateReturnsThrows(i) ==
    /\ i \in 1..Len(logCreates)
    /\ logCreates[i].state = "pending"
    /\ \E ok \in BOOLEAN :
        LET thrown(h) ==
                ~ok /\ h.accessLog = i /\ h.pc \notin {"res.finish", "done"}
            caught(h) ==
                [h EXCEPT !.pc = "res.finish", !.status = 500,
                          !.body = [id |-> 500,
                                    message |-> "Internal server error."]]
        IN  /\ logCreates' = [logCreates EXCEPT ![i].state =
                                    IF ok THEN "stored" ELSE "failed"]
            /\ logs' = IF ok THEN Append(logs, logCreates[i].doc) ELSE logs
            /\ getUser' = IF thrown(getUser) THEN caught(getUser)
                          ELSE getUser
            /\ getLogs' = IF thrown(getLogs) THEN caught(getLogs)
                          ELSE getLogs
    /\ UNCHANGED <<now, users, costs, reports, req, add, addUser, served>>

\* A Log.create call returns: the document is stored, or the rejection is
\* caught by the .catch of saveLogToDb, which only reports it.
LogCreateReturns(i) ==
    /\ i \in 1..Len(logCreates)
    /\ logCreates[i].state = "pending"
    /\ \E ok \in BOOLEAN :
        /\ logCreates' = [logCreates EXCEPT ![i].state =
                                IF ok THEN "stored" ELSE "failed"]
        /\ logs' = IF ok THEN Append(logs, logCreates[i].doc) ELSE logs
    /\ UNCHANGED <<now, users, costs, reports, req, add, addUser, served,
                   getUser, getLogs>>

(***************************************************************************)
(* routes/user.routes.js: GET /api/users/:id                               *)
(***************************************************************************)
\* a GET /users/:id handler that is not running; accessLog and finishLog
\* are the positions in logCreates of the log writes of the request
IdleGetUser ==
    [pc |-> "idle", id |-> <<>>, numericId |-> NaN, user |-> NoDoc,
     fetched |-> 0, calls |-> <<>>, failed |-> FALSE,
     accessLog |-> 0, finishLog |-> 0, status |-> 0, body |-> NoDoc]

\* res.status(code).json(body): the response is sent; its 'finish' event
\* is still to fire
Send(r, code, body) ==
    [r EXCEPT !.pc = "res.finish", !.status = code, !.body = body]

\* User.findOne({ id }).lean(): the first matching document in natural
\* order, or NoDoc
FindOneUser(id) ==
    LET hits == {i \in 1..Len(users) : users[i].id = id}
    IN  IF hits = {} THEN NoDoc
        ELSE users[CHOOSE i \in hits : \A j \in hits : i <= j]

\* the sum of two numbers
Plus(a, b) ==
    IF a.nan \/ b.nan THEN NaN
    ELSE IF a.den = b.den THEN Frac(a.num + b.num, a.den)
    ELSE Frac(a.num * b.den + b.num * a.den, a.den * b.den)

\* { $sum: '$sum' } over the documents of a group
RECURSIVE SumOf(_)
SumOf(found) ==
    IF found = <<>> THEN Num(0) ELSE Plus(Head(found).sum, SumOf(Tail(found)))

\* (mutant) the $match stage is missing: the costs of all users are summed
AggregateCostsAllUsers(id) ==
    IF costs = <<>> THEN <<>> ELSE <<[_id |-> id, total |-> SumOf(costs)]>>

\* Cost.aggregate([{ $match: { userid: id } }, { $group: { _id: '$userid',
\* total: { $sum: '$sum' } } }]): one group when a cost matches, else none
AggregateCosts(id) ==
    LET matched == SelectSeq(costs, LAMBDA c : c.userid = id)
    IN  IF matched = <<>> THEN <<>>
        ELSE <<[_id |-> id, total |-> SumOf(matched)]>>

\* A request arrives: the access log is written without waiting for it,
\* the id is checked and User.findOne is issued.
GetUserStart(id) ==
    /\ getUser.pc \in {"idle", "done"}
    /\ LET path == "/api/users/" \o TextOf(id)
           message == "Endpoint accessed: GET /api/users/" \o TextOf(id)
           numericId == StringToNumber(id)
           r == [IdleGetUser EXCEPT !.id = id, !.numericId = numericId,
                                    !.accessLog = Len(logCreates) + 1]
       IN  /\ logCreates' = saveLogToDb(AccessLogDoc("GET", path, message))
           /\ getUser' =
                IF ~IsInteger(numericId) \/ IsNotPositive(numericId)
                THEN Send(r, 400, ErrorBody(400,
                        "User ID must be a positive integer."))
                ELSE Await(r, "User.findOne")
    /\ UNCHANGED <<now, users, costs, reports, req, add, addUser, served,
                   getLogs, logs>>

\* User.findOne returns: a missing user answers 404; otherwise the
\* aggregation of the user's costs is issued.
GetUserFindOne ==
    /\ getUser.pc = "User.findOne"
    /\ \E ok \in BOOLEAN :
        LET r == getUser
            id == IntegerOf(r.numericId)
            user == FindOneUser(id)
        IN  getUser' =
                IF ~ok THEN Send(Rejected(r), 500,
                        ErrorBody(500, "Internal server error."))
                ELSE IF user = NoDoc
                THEN Send(r, 404, ErrorBody(404,
                        "User " \o ToString(id) \o " does not exist."))
                ELSE Await([r EXCEPT !.user = user], "Cost.aggregate")
    /\ UNCHANGED <<now, users, costs, reports, req, add, addUser, served,
                   getLogs, logs, logCreates>>

\* Cost.aggregate returns: the user is answered with the total.
GetUserAggregate ==
    /\ getUser.pc = "Cost.aggregate"
    /\ \E ok \in BOOLEAN :
        LET r == getUser
            agg == AggregateCosts(IntegerOf(r.numericId))
            total == IF Len(agg) # 0 THEN agg[1].total ELSE Num(0)
            userObj == [first_name |-> r.user.first_name,
                        last_name |-> r.user.last_name,
                        id |-> r.user.id, total |-> total]
        IN  getUser' =
                IF ~ok THEN Send(Rejected(r), 500,
                        ErrorBody(500, "Internal server error."))
                ELSE Send([r EXCEPT !.fetched = Len(costs)], 200, userObj)
    /\ UNCHANGED <<now, users, costs, reports, req, add, addUser, served,
                   getLogs, logs, logCreates>>

\* The response has been sent: the 'finish' listener writes the request
\* log without waiting for it.
GetUserFinished ==
    /\ getUser.pc = "res.finish"
    /\ LET path == "/api/users/" \o TextOf(getUser.id)
       IN  logCreates' = saveLogToDb(FinishLogDoc("GET", path, getUser.status))
    /\ getUser' = [getUser EXCEPT !.pc = "done",
                                  !.finishLog = Len(logCreates) + 1]
    /\ UNCHANGED <<now, users, costs, reports, req, add, addUser, served,
                   getLogs, logs>>

(***************************************************************************)
(* routes/log.routes.js: GET /api/logs                                     *)
(***************************************************************************)
\* a GET /logs handler that is not running; found is the number of Log
\* documents in the store when Log.find returned
IdleGetLogs ==
    [pc |-> "idle", found |-> 0, calls |-> <<>>, failed |-> FALSE,
     accessLog |-> 0, finishLog |-> 0, status |-> 0, body |-> NoDoc]

\* Log.find({}).sort({ time: -1 }): the stored documents, newest first;
\* documents of the same time come in any order
FindLogs ==
    {[i \in 1..Len(logs) |-> logs[p[i]]] : p \in
        {q \in Permutations(1..Len(logs)) :
            \A i, j \in 1..Len(logs) :
                i < j => logs[q[i]].time >= logs[q[j]].time}}

\* (mutant) the logging middleware writes the request log when the request
\* arrives instead of on 'finish'
GetLogsStartLogsArrival ==
    /\ getLogs.pc \in {"idle", "done"}
    /\ logCreates' =
            logCreates \o
                <<[doc |-> AccessLogDoc("GET", "/api/logs",
                                "Endpoint accessed: GET /api/logs"),
                   state |-> "pending"],
                  [doc |-> FinishLogDoc("GET", "/api/logs", 200),
                   state |-> "pending"]>>
    /\ getLogs' = Await([IdleGetLogs EXCEPT
                            !.accessLog = Len(logCreates) + 1,
                            !.finishLog = Len(logCreates) + 2],
                        "Log.find")
    /\ UNCHANGED <<now, users, costs, reports, req, add, addUser, served,
                   getUser, logs>>

\* A request arrives: the access log is written without waiting for it
\* and Log.find is issued.
GetLogsStart ==
    /\ getLogs.pc \in {"idle", "done"}
    /\ logCreates' = saveLogToDb(AccessLogDoc("GET", "/api/logs",
                            "Endpoint accessed: GET /api/logs"))
    /\ getLogs' = Await([IdleGetLogs EXCEPT !.accessLog = Len(logCreates) + 1],
                        "Log.find")
    /\ UNCHANGED <<now, users, costs, reports, req, add, addUser, served,
                   getUser, logs>>

\* Log.find returns: the logs are the answer.
GetLogsFind ==
    /\ getLogs.pc = "Log.find"
    /\ \E ok \in BOOLEAN, found \in FindLogs :
        LET r == getLogs
        IN  getLogs' =
                IF ~ok THEN Send(Rejected(r), 500,
                        ErrorBody(500, "Internal server error."))
                ELSE Send([r EXCEPT !.found = Len(logs)], 200, found)
    /\ UNCHANGED <<now, users, costs, reports, req, add, addUser, served,
                   getUser, logs, logCreates>>

\* The response has been sent: the 'finish' listener writes the request
\* log without waiting for it.
GetLogsFinished ==
    /\ getLogs.pc = "res.finish"
    /\ logCreates' = saveLogToDb(FinishLogDoc("GET", "/api/logs",
                                              getLogs.status))
    /\ getLogs' = [getLogs EXCEPT !.pc = "done",
                                  !.finishLog = Len(logCreates) + 1]
    /\ UNCHANGED <<now, users, costs, reports, req, add, addUser, served,
                   getUser, logs>>

(***************************************************************************)
(* The wall clock.                                                         *)
(***************************************************************************)
Tick ==
    /\ now < MaxNow
    /\ now' = now + 1
    /\ UNCHANGED <<users, costs, reports, req, add, addUser, served,
                 getUser, getLogs, logs, logCreates>>

(***************************************************************************)
(* Requests of the model.                                                  *)
(***************************************************************************)
\* the decimal digits of a natural number
RECURSIVE DigitsOf(_)
DigitsOf(n) ==
    LET d == CHOOSE c \in Digits : DigitVal[c] = n % 10
    IN  IF n < 10 THEN <<d>> ELSE Append(DigitsOf(n \div 10), d)

\* the users a started service finds in the store
StoredUsers ==
    <<UserDoc(1, <<"a">>, <<"b">>, DateOf(StartYear - 1, 0, 1)),
      UserDoc(2, <<"c">>, <<"d">>, DateOf(StartYear - 1, 0, 1))>>

Query(userid, year, month) ==
    [id |-> Undefined, userid |-> userid, year |-> year, month |-> month]

\* overlapping report requests of one existing user: December of the
\* year the clock starts in (current, then past) and of the next year
Queries ==
    {Query(Str(<<"1">>), Str(DigitsOf(y)), Str(<<"1", "2">>)) :
        y \in {StartYear, StartYear + 1}}

\* costs added while report requests overlap: dated now (no date given)
CostBodies ==
    {[description |-> Str(<<"a">>), category |-> Str(<<"f", "o", "o", "d">>),
      userid |-> [t |-> "number", v |-> Num(1)],
      sum |-> [t |-> "number", v |-> Num(5)], date |-> Undefined]}

\* report requests handled one after the other: an existing and a
\* missing user, the same two months
SeqQueries ==
    {Query(Str(u), Str(DigitsOf(y)), Str(<<"1", "2">>)) :
        u \in {<<"1">>, <<"3">>}, y \in {StartYear, StartYear + 1}}

\* costs added meanwhile: two users, two categories, dated now or on the
\* first day of the next year's December
SeqCostBodies ==
    {[description |-> Str(<<"a">>), category |-> Str(c),
      userid |-> [t |-> "number", v |-> Num(u)],
      sum |-> [t |-> "number", v |-> Num(5)], date |-> d] :
        c \in {<<"f", "o", "o", "d">>, <<" ", "S", "p", "o", "r", "t", "s">>},
        u \in {1, 2},
        d \in {Undefined, DateString(DateOf(StartYear + 1, 11, 1))}}

\* the texts a query parameter is given as in requests that exercise the
\* parameter checks
UserIdTexts ==
    {Undefined, Str(<<>>), Str(<<"1">>), Str(<<"3">>), Str(<<"-", "5">>),
     Str(<<"a", "b", "c">>)}
IdTexts == {Undefined, Str(<<"1">>)}
YearTexts ==
    {Undefined, Str(DigitsOf(StartYear)), Str(DigitsOf(StartYear - 1)),
     Str(<<"1", ".", "5">>)}
MonthTexts ==
    {Str(<<>>), Str(<<"1", "2">>), Str(<<"1", "3">>), Str(<<"0">>),
     Str(<<"-", "1">>)}

ValidationQueries ==
    {[id |-> i, userid |-> u, year |-> y, month |-> m] :
        i \in IdTexts, u \in UserIdTexts, y \in YearTexts, m \in MonthTexts}

\* the years and months requests ask to classify: two-digit years, the
\* years around the clock's, the first and the last months of a year
ClassifyYears == {50, 99, 100, StartYear, StartYear + 1}
ClassifyMonths == {1, 12}
ClassifyQueries ==
    {Query(Str(<<"1">>), Str(DigitsOf(y)), Str(DigitsOf(m))) :
        y \in ClassifyYears, m \in ClassifyMonths}

\* a number of a JSON body
Number(n) == [t |-> "number", v |-> n]

\* users added while other requests run: a stored id and a new one, under
\* two first names, born on the first day of the previous year
UserBodies ==
    {[id |-> Number(Num(i)), first_name |-> Str(f), last_name |-> Str(<<"g">>),
      birthday |-> DateString(DateOf(StartYear - 1, 0, 1))] :
        i \in {1, 3}, f \in {<<"e">>, <<"f">>}}

\* costs of a stored user and of the user being added, dated now
UsersCostBodies ==
    {[description |-> Str(<<"a">>), category |-> Str(<<"f", "o", "o", "d">>),
      userid |-> Number(Num(u)), sum |-> Number(Num(5)), date |-> Undefined] :
        u \in {1, 3}}

\* the values each field of a cost is given in requests that exercise the
\* field checks
DescriptionValues == {Str(<<" ">>), Str(<<"a">>)}
CategoryValues ==
    {Str(<<" ", "F", "o", "o", "d", " ">>), Str(<<"t", "o", "y", "s">>)}
CostUserIdValues ==
    {Undefined, Null, Number(Num(1)), Number(Num(3)), Number(Num(-1)),
     Number(Frac(15, 10))}
SumValues == {Undefined, Null, Number(Num(5)), Number(Num(-5))}
\* no date, a text that is no date, the last instant of the day before
\* the clock's first day, that day's first and second instants, the next
\* day's first instant
DateValues ==
    {Undefined, Str(<<"a", "b", "c">>), DateString(StartNow - 1),
     DateString(StartNow), DateString(StartNow + 1),
     DateString(StartNow + TicksPerDay)}

CostValidationBodies ==
    {[description |-> d, category |-> c, userid |-> u, sum |-> m,
      date |-> t] :
        d \in DescriptionValues, c \in CategoryValues,
        u \in CostUserIdValues, m \in SumValues, t \in DateValues}

\* the values each field of a user is given in requests that exercise the
\* field checks; the birthdays are no birthday, a text that is no date,
\* the first instant of the day before the clock's first day, that day's
\* first and second instants, the next day's first instant
UserIdValues == {Undefined, Number(Num(3)), Number(Num(-1))}
FirstNameValues == {Str(<<" ">>), Str(<<"e">>)}
BirthdayValues ==
    {Undefined, Str(<<"a", "b", "c">>), DateString(StartNow - TicksPerDay),
     DateString(StartNow), DateString(StartNow + 1),
     DateString(StartNow + TicksPerDay)}

UserValidationBodies ==
    {[id |-> i, first_name |-> f, last_name |-> Str(<<"g">>),
      birthday |-> d] :
        i \in UserIdValues, f \in FirstNameValues, d \in BirthdayValues}

\* the texts of the :id parameter: a stored user with costs, one that may
\* have none, a missing user, and texts that are no positive integer
GetUserIds ==
    {<<"1">>, <<"2">>, <<"3">>, <<"0">>, <<"-", "1">>, <<"1", ".", "5">>,
     <<"a", "b", "c">>}

\* costs of the two stored users, of two sums, dated now
TotalsCostBodies ==
    {[description |-> Str(<<"a">>), category |-> Str(<<"f", "o", "o", "d">>),
      userid |-> Number(Num(u)), sum |-> Number(Num(m)), date |-> Undefined] :
        u \in {1, 2}, m \in {5, 7}}

\* the :id texts of the requests made while the logs are read
LogsUserIds == {<<"1">>, <<"0">>}

\* Cost documents of user 1 written to the store directly, past the
\* checks of the route and of the schema: of registered categories, of a
\* category no registry has, and of one that names a property every
\* object inherits; of two sums, dated on the two days of the month the
\* clock starts in
StoredCostDocs ==
    {[description |-> <<"a">>, category |-> c, userid |-> 1,
      sum |-> Num(m), date |-> DateOf(StartYear, 11, d)] :
        c \in {"food", "sports", "toys", "constructor"},
        m \in {5, 7}, d \in 1..DaysPerMonth}

\* the costs collections a started service finds
RECURSIVE StoredCosts(_)
StoredCosts(n) ==
    IF n = 0 THEN {<<>>}
    ELSE StoredCosts(n - 1)
            \cup {Append(s, c) : s \in {t \in StoredCosts(n - 1) :
                                            Len(t) = n - 1},
                                 c \in StoredCostDocs}

Init ==
    /\ now = StartNow
    /\ users = StoredUsers
    /\ costs = <<>>
    /\ reports = <<>>
    /\ req = [p \in ReportReqs |-> IdleReport]
    /\ add = [a \in CostReqs |-> IdleCost]
    /\ addUser = [u \in UserReqs |-> IdleUser]
    /\ served = {}
    /\ getUser = IdleGetUser
    /\ getLogs = IdleGetLogs
    /\ logs = <<>>
    /\ logCreates = <<>>

\* the services start on a store that already holds costs
InitStored ==
    /\ now = StartNow
    /\ users = StoredUsers
    /\ costs \in StoredCosts(MaxStoredCosts)
    /\ reports = <<>>
    /\ req = [p \in ReportReqs |-> IdleReport]
    /\ add = [a \in CostReqs |-> IdleCost]
    /\ addUser = [u \in UserReqs |-> IdleUser]
    /\ served = {}
    /\ getUser = IdleGetUser
    /\ getLogs = IdleGetLogs
    /\ logs = <<>>
    /\ logCreates = <<>>

\* the steps a started GET /report handler takes
ReportStep(p) ==
    \/ ReportUserExists(p)
    \/ ReportFindOne(p)
    \/ ReportFind(p)
    \/ ReportCreate(p)

\* the steps a started POST /add (cost) handler takes
CostStep(a) ==
    \/ CostUserExists(a)
    \/ CostSave(a)

\* Requests of both endpoints arrive at any time and overlap.
Next ==
    \/ \E p \in ReportReqs, q \in Queries : ReportStart(p, q)
    \/ \E p \in ReportReqs : ReportStep(p)
    \/ \E a \in CostReqs, b \in CostBodies :
            CostRoom(MaxCosts) /\ CostStart(a, b)
    \/ \E a \in CostReqs : CostStep(a)
    \/ Tick

Spec == Init /\ [][Next]_vars

\* Report requests are handled one after the other (a request arrives
\* only after the previous one was answered); cost requests and the clock
\* go on as before.
NextSeq ==
    \/ \E q \in SeqQueries : ReportStart(1, q)
    \/ ReportStep(1)
    \/ \E a \in CostReqs, b \in SeqCostBodies :
            CostRoom(MaxCostsSeq) /\ CostStart(a, b)
    \/ \E a \in CostReqs : CostStep(a)
    \/ Tick

SpecSeq == Init /\ [][NextSeq]_vars

\* One report request at a time with any combination of parameter texts,
\* against a store that does not change otherwise.
NextValidate ==
    \/ \E q \in ValidationQueries : ReportStart(1, q)
    \/ ReportStep(1)

SpecValidate == Init /\ [][NextValidate]_vars

\* One report request at a time for any of the years and months to
\* classify, while the clock advances.
NextClassify ==
    \/ \E q \in ClassifyQueries :
            Len(reports) < MaxReports /\ ReportStart(1, q)
    \/ ReportStep(1)
    \/ Tick

SpecClassify == Init /\ [][NextClassify]_vars

\* the steps a started POST /add (user) handler takes
UserStep(u) ==
    \/ UserExistsReturns(u)
    \/ UserSave(u)

\* Users are added by overlapping requests while costs are added and the
\* clock advances.
NextUsers ==
    \/ \E u \in UserReqs, b \in UserBodies : UserStart(u, b)
    \/ \E u \in UserReqs : UserStep(u)
    \/ \E a \in CostReqs, b \in UsersCostBodies :
            CostRoom(MaxCosts) /\ CostStart(a, b)
    \/ \E a \in CostReqs : CostStep(a)
    \/ Tick

SpecUsers == Init /\ [][NextUsers]_vars

\* One cost request at a time with any combination of field values,
\* while the clock advances.
NextCostValidate ==
    \/ \E b \in CostValidationBodies : CostRoom(MaxCosts) /\ CostStart(1, b)
    \/ CostStep(1)
    \/ Tick

SpecCostValidate == Init /\ [][NextCostValidate]_vars

\* One add-user request at a time with any combination of field values,
\* while the clock advances.
NextUserValidate ==
    \/ \E b \in UserValidationBodies : UserStart(1, b)
    \/ UserStep(1)
    \/ Tick

SpecUserValidate == Init /\ [][NextUserValidate]_vars

\* the steps a started GET /users/:id handler takes
GetUserStep ==
    \/ GetUserFindOne
    \/ GetUserAggregate
    \/ GetUserFinished

\* One request for a user's total, at any moment while costs are added.
NextTotals ==
    \/ \E id \in GetUserIds : LogRoom(MaxTotalsLogCreates) /\ GetUserStart(id)
    \/ GetUserStep
    \/ \E a \in CostReqs, b \in TotalsCostBodies :
            CostRoom(MaxCostsTotals) /\ CostStart(a, b)
    \/ \E a \in CostReqs : CostStep(a)

SpecTotals == Init /\ [][NextTotals]_vars

\* the steps a started GET /logs handler takes
GetLogsStep ==
    \/ GetLogsFind
    \/ GetLogsFinished

\* The logs are read and a user is asked for, one request of each at a
\* time, while the log writes of the requests return at any later moment
\* and the clock advances.
NextLogs ==
    \/ LogRoom(MaxLogCreates) /\ GetLogsStart
    \/ GetLogsStep
    \/ \E id \in LogsUserIds : LogRoom(MaxLogCreates) /\ GetUserStart(id)
    \/ GetUserStep
    \/ \E i \in 1..Len(logCreates) : LogCreateReturns(i)
    \/ Tick

SpecLogs == Init /\ [][NextLogs]_vars

\* One report request at a time over the costs the store already holds,
\* while the clock advances.
NextStored ==
    \/ \E q \in Queries : ReportStart(1, q)
    \/ ReportStep(1)
    \/ Tick

SpecStored == InitStored /\ [][NextStored]_vars

\* Overlapping report requests of an existing and of a missing user while
\* the clock advances.
NextLive ==
    \/ \E p \in ReportReqs, q \in SeqQueries : ReportStart(p, q)
    \/ \E p \in ReportReqs : ReportStep(p)
    \/ Tick

\* Every store call a handler awaits returns in the end, with a result or
\* with an error: a handler that can take a step takes it.
SpecLive ==
    /\ Init /\ [][NextLive]_vars
    /\ \A p \in ReportReqs : WF_vars(ReportStep(p))

(***************************************************************************)
(* Properties.                                                             *)
(***************************************************************************)
Range(f) == {f[i] : i \in DOMAIN f}

\* the stored reports of one (userid, year, month)
ReportsOf(userid, year, month) ==
    {i \in 1..Len(reports) :
        /\ reports[i].userid = userid
        /\ reports[i].year = year
        /\ reports[i].month = month}

\* (year, month) is strictly before the calendar month of instant t
MonthBefore(year, month, t) ==
    12 * year + month < 12 * getFullYear(t) + getMonth(t) + 1

\* the registry order the reports are to follow
CategoryOrder == <<"food", "health", "housing", "sports", "education">>

\* the request's own key
KeyOf(r) == <<r.numericUserId, r.numericYear, r.numericMonth>>

\* the stored costs of a user dated in a calendar month
CostsInMonth(stored, userid, year, month) ==
    SelectSeq(stored, LAMBDA c :
        /\ c.userid = userid
        /\ getFullYear(c.date) = year
        /\ getMonth(c.date) + 1 = month)

\* the {sum, description, day} entries of some costs, in their order
EntriesOf(found) ==
    [k \in 1..Len(found) |->
        [sum |-> found[k].sum, description |-> found[k].description,
         day |-> getDate(found[k].date)]]

OfCategory(found, cat) == SelectSeq(found, LAMBDA c : c.category = cat)

Answered(r, code) == r.pc = "done" /\ r.status = code

\* C1: with report requests handled one after the other, every request of
\* an existing user for a past month whose store calls succeed is answered
\* 200, all 200 answers given for one past (userid, year, month) carry the
\* same costs, and exactly one Report document is stored for that key.
C1_IdempotentCaching ==
    /\ \A p \in ReportReqs :
        (/\ req[p].pc = "done"
         /\ req[p].isPastMonthBool
         /\ ~req[p].failed) => req[p].status = 200
    /\ \A a \in served, b \in served :
        (a.userid = b.userid /\ a.year = b.year /\ a.month = b.month)
            => a.costs = b.costs
    /\ \A a \in served :
        Cardinality(ReportsOf(a.userid, a.year, a.month)) = 1

\* a second request for a past month with costs is answered from the cache
C1_Witness ==
    \E p \in ReportReqs :
        /\ Answered(req[p], 200)
        /\ req[p].isPastMonthBool
        /\ req[p].cachedReport # NoDoc
        /\ req[p].body.costs[1]["food"] # <<>>
        /\ [userid |-> req[p].numericUserId, year |-> req[p].numericYear,
            month |-> req[p].numericMonth, costs |-> req[p].body.costs]
                \in served

\* C2: no two Report documents of the store share (userid, year, month).
C2_AtMostOneReportPerKey ==
    \A i \in 1..Len(reports), j \in 1..Len(reports) :
        (/\ reports[i].userid = reports[j].userid
         /\ reports[i].year = reports[j].year
         /\ reports[i].month = reports[j].month) => i = j

\* C3: a request classifies its month as past only when (year, month) is
\* strictly before the calendar month of the clock at that moment, issues
\* Report.create only if it classified the month as past, and every
\* document that enters the reports collection is appended by such a
\* request, for its own key, which is strictly before the current month.
C3_NoCacheForNonPastMonth ==
    [][/\ \A p \in ReportReqs :
            (req[p].pc = "User.exists" /\ req'[p].isPastMonthBool)
                => MonthBefore(req[p].numericYear, req[p].numericMonth, now)
       /\ \A p \in ReportReqs :
            (req'[p].pc = "Report.create" /\ req[p].pc # "Report.create")
                => req'[p].isPastMonthBool
       /\ reports' # reports =>
            \E p \in ReportReqs :
                /\ req[p].pc = "Report.create" /\ req[p].isPastMonthBool
                /\ Len(reports') = Len(reports) + 1
                /\ SubSeq(reports', 1, Len(reports)) = reports
                /\ LET doc == reports'[Len(reports')]
                   IN  /\ <<doc.userid, doc.year, doc.month>> = KeyOf(req[p])
                       /\ MonthBefore(doc.year, doc.month, now)]_vars

\* the current month, holding a cost, was requested twice and answered
\* 200 both times, and no document is stored for it
C3_Witness ==
    \E p \in ReportReqs, o \in ReportReqs :
        /\ p # o
        /\ Answered(req[p], 200) /\ Answered(req[o], 200)
        /\ KeyOf(req[p]) = KeyOf(req[o])
        /\ ~req[p].isPastMonthBool /\ ~req[o].isPastMonthBool
        /\ req[p].numericYear = getFullYear(now)
        /\ req[p].numericMonth = getMonth(now) + 1
        /\ req[p].body.costs[1]["food"] # <<>>
        /\ ReportsOf(req[p].numericUserId, req[p].numericYear,
                     req[p].numericMonth) = {}

C5_WindowCorrectness ==
    \A p \in ReportReqs :
        req[p].report # NoDoc =>
            LET r == req[p]
                inWindow == CostsInMonth(SubSeq(costs, 1, r.fetched),
                                r.numericUserId, r.numericYear, r.numericMonth)
            IN  \A i \in 1..5 :
                    r.report.costs[i][CategoryOrder[i]]
                        = EntriesOf(OfCategory(inWindow, CategoryOrder[i]))

\* a computed report lists one cost while the store held another cost
\* (of another user or month) at the fetch
C5_Witness ==
    \E p \in ReportReqs :
        /\ req[p].report # NoDoc
        /\ req[p].fetched = 2
        /\ \E i \in 1..5 : Len(req[p].report.costs[i][CategoryOrder[i]]) = 1
        /\ \A i \in 1..5 : Len(req[p].report.costs[i][CategoryOrder[i]]) <= 1
        /\ Cardinality({i \in 1..5 :
                req[p].report.costs[i][CategoryOrder[i]] # <<>>}) = 1

\* the parameter texts that denote a positive integer, and those above 12
PositiveIntegerTexts ==
    {Str(<<"1">>), Str(<<"3">>), Str(<<"1", "2">>), Str(<<"1", "3">>),
     Str(DigitsOf(StartYear)), Str(DigitsOf(StartYear - 1)),
     Str(DigitsOf(StartYear + 1))}
Above12Texts == {Str(<<"1", "3">>)}

\* the answer the parameter checks are to give: the message of the first
\* failing class (presence, number shape, range), "" when none fails
ExpectedValidation(q) ==
    LET given == {IF q.userid # Undefined THEN q.userid ELSE q.id,
                  q.year, q.month}
    IN  IF given \cap {Undefined, Str(<<>>)} # {}
        THEN "Missing required fields."
        ELSE IF ~(given \subseteq PositiveIntegerTexts)
        THEN "User ID, year and month must be positive integers."
        ELSE IF q.month \in Above12Texts
        THEN "Month number must be between 1 and 12."
        ELSE ""

\* C6: a request whose parameters fail a check is answered 400 with the
\* message of the first failing class in the order presence, number
\* shape, range, before any store call; a request whose parameters pass
\* goes on to the user-existence check.
C6_ValidationOrder ==
    \A p \in ReportReqs :
        req[p].pc # "idle" =>
            IF ExpectedValidation(req[p].query) # ""
            THEN /\ Answered(req[p], 400)
                 /\ req[p].body = [id |-> 400,
                        message |-> ExpectedValidation(req[p].query)]
                 /\ req[p].calls = <<>>
            ELSE req[p].calls # <<>> /\ req[p].calls[1] = "User.exists"

\* month=13 with userid=-5 was answered with the positive-integer message
C6_Witness ==
    \E p \in ReportReqs :
        /\ req[p].query.userid = Str(<<"-", "5">>)
        /\ req[p].query.month = Str(<<"1", "3">>)
        /\ req[p].query.year = Str(DigitsOf(StartYear))
        /\ Answered(req[p], 400)
        /\ req[p].body.message
                = "User ID, year and month must be positive integers."

\* C7: the first store call of a request is the user-existence check and
\* nothing else is issued while it is pending; whatever is issued after it
\* is issued for an existing user; a request for a missing user is
\* answered 400 'User {id} does not exist.' with no other store call.
C7_ExistenceCheckFirst ==
    \A p \in ReportReqs :
        LET r == req[p]
        IN  /\ r.calls # <<>> => r.calls[1] = "User.exists"
            /\ r.pc = "User.exists" => r.calls = <<"User.exists">>
            /\ Len(r.calls) > 1 => UserExists(r.numericUserId)
            /\ (r.pc = "done" /\ r.calls # <<>> /\ ~r.failed
                    /\ ~UserExists(r.numericUserId))
                => /\ r.status = 400
                   /\ r.numericUserId = 3
                        => r.body = [id |-> 400,
                                     message |-> "User 3 does not exist."]
                   /\ r.calls = <<"User.exists">>

\* a request for the missing user 3 was answered 400
C7_Witness ==
    \E p \in ReportReqs :
        /\ Answered(req[p], 400)
        /\ req[p].numericUserId = 3
        /\ req[p].body.message = "User 3 does not exist."
        /\ reports # <<>>

\* C8: when the cache lookup of a request returns while a Report document
\* of its (userid, year, month) is stored, the request is answered 200
\* with such a document, its store calls are the existence check and the
\* lookup only, and the reports collection is left as it is.
C8_CacheHitShortCircuits ==
    [][\A p \in ReportReqs :
            (/\ req[p].pc = "Report.findOne"
             /\ req'[p] # req[p]
             /\ ~req'[p].failed
             /\ ReportsOf(req[p].numericUserId, req[p].numericYear,
                          req[p].numericMonth) # {})
                => /\ Answered(req'[p], 200)
                   /\ \E i \in ReportsOf(req[p].numericUserId,
                            req[p].numericYear, req[p].numericMonth) :
                        req'[p].body = reports[i]
                   /\ req'[p].calls = <<"User.exists", "Report.findOne">>
                   /\ reports' = reports
                   /\ costs' = costs]_vars

\* a request was answered from the cache with a report that lists a cost
C8_Witness ==
    \E p \in ReportReqs :
        /\ Answered(req[p], 200)
        /\ req[p].cachedReport # NoDoc
        /\ req[p].body = req[p].cachedReport
        /\ req[p].body.costs[1]["food"] # <<>>

\* C9: a request one of whose store calls was rejected is answered 500
\* 'Internal server error.', the rejected call being its last and no call
\* being issued twice; so no 200 answer follows a rejected insert.
C9_StoreFailureIs500 ==
    \A p \in ReportReqs :
        req[p].failed =>
            /\ Answered(req[p], 500)
            /\ req[p].body = [id |-> 500, message |-> "Internal server error."]
            /\ Cardinality(Range(req[p].calls)) = Len(req[p].calls)

\* the cache insert of a request was rejected
C9_Witness ==
    \E p \in ReportReqs :
        /\ req[p].failed
        /\ req[p].calls[Len(req[p].calls)] = "Report.create"
        /\ Answered(req[p], 500)

\* C10: once a past-month request was answered 200, a Report document of
\* its (userid, year, month) is stored in every later state, and no later
\* cache lookup for that key misses.
C10_AnsweredPastIsCached ==
    /\ [](\A a \in served : ReportsOf(a.userid, a.year, a.month) # {})
    /\ [][\A p \in ReportReqs :
            (req[p].pc = "Report.findOne" /\ req'[p].pc = "Cost.find")
                => \A a \in served :
                        <<a.userid, a.year, a.month>> # KeyOf(req[p])]_vars

\* a past month was answered by a computing request and then from the cache
C10_Witness ==
    \E p \in ReportReqs, o \in ReportReqs :
        /\ p # o
        /\ Answered(req[p], 200) /\ Answered(req[o], 200)
        /\ KeyOf(req[p]) = KeyOf(req[o])
        /\ req[p].isPastMonthBool /\ req[p].cachedReport = NoDoc
        /\ req[o].cachedReport # NoDoc

\* C11: a stored Report document is never updated or deleted (the
\* collection only grows at its end), and every 200 answer given for a key
\* while a Report document of that key is stored carries the costs of such
\* a document, whatever costs were inserted since.
C11_PermanentCache ==
    [][/\ Len(reports') >= Len(reports)
       /\ SubSeq(reports', 1, Len(reports)) = reports
       /\ \A p \in ReportReqs :
            (/\ req[p].pc # "done"
             /\ Answered(req'[p], 200)
             /\ ReportsOf(req[p].numericUserId, req[p].numericYear,
                          req[p].numericMonth) # {})
                => \E i \in ReportsOf(req[p].numericUserId,
                            req[p].numericYear, req[p].numericMonth) :
                        req'[p].body.costs = reports[i].costs]_vars

\* C12: when a past month of an existing user is answered 200 first by a
\* request that computed the report and stored the only Report document of
\* the key, and then by a request answered from the cache, the second
\* response body equals the first: the same fields with the same values.
C12_SecondResponseIdentical ==
    \A p \in ReportReqs, o \in ReportReqs :
        (/\ p # o
         /\ Answered(req[p], 200) /\ Answered(req[o], 200)
         /\ req[p].query = req[o].query
         /\ req[p].isPastMonthBool /\ req[o].isPastMonthBool
         /\ req[p].cachedReport = NoDoc
         /\ req[o].cachedReport # NoDoc
         /\ Cardinality(ReportsOf(req[p].numericUserId, req[p].numericYear,
                                  req[p].numericMonth)) = 1)
            => /\ DOMAIN req[o].body = DOMAIN req[p].body
               /\ req[o].body = req[p].body

\* C13: the classification a request obtains from isPastMonth(year, month)
\* is true exactly when 12*year+month < 12*nowYear+nowMonth for the date
\* the clock shows at the call: false for the current month and every
\* later month, true for December of the previous year in January.
C13_StrictlyBeforeCurrentMonth ==
    [][\A p \in ReportReqs :
            (/\ req[p].pc = "User.exists"
             /\ req'[p].pc \in {"Report.findOne", "Cost.find"})
                => (req'[p].isPastMonthBool
                        <=> 12 * req[p].numericYear + req[p].numericMonth
                                < 12 * getFullYear(now) + (getMonth(now) + 1))
      ]_vars

\* in January, December of the previous year was classified as past
C13_Witness ==
    \E p \in ReportReqs :
        /\ req[p].pc = "Report.findOne"
        /\ req[p].isPastMonthBool
        /\ getMonth(now) = 0
        /\ req[p].numericYear = getFullYear(now) - 1
        /\ req[p].numericMonth = 12

\* C14: a request that classified its month as current or future issues
\* the existence check and the cost fetch only (no call on the Report
\* collection); its 200 answer lists, per category, exactly the entries of
\* the user's costs of that month stored at its fetch; and every such cost
\* stored (answered 201) before the request arrived is among them.
C14_NonPastComputedFromCosts ==
    \A p \in ReportReqs :
        LET r == req[p]
        IN  /\ (r.pc = "Cost.find" /\ ~r.isPastMonthBool)
                => r.calls = <<"User.exists", "Cost.find">>
            /\ (Answered(r, 200) /\ ~r.isPastMonthBool) =>
                /\ r.calls = <<"User.exists", "Cost.find">>
                /\ r.began <= r.fetched
                /\ LET inWindow == CostsInMonth(SubSeq(costs, 1, r.fetched),
                            r.numericUserId, r.numericYear, r.numericMonth)
                   IN  \A i \in 1..5 :
                            r.body.costs[i][CategoryOrder[i]]
                                = EntriesOf(OfCategory(inWindow,
                                                       CategoryOrder[i]))
                /\ \A k \in 1..r.began :
                    (/\ costs[k].userid = r.numericUserId
                     /\ getFullYear(costs[k].date) = r.numericYear
                     /\ getMonth(costs[k].date) + 1 = r.numericMonth)
                        => \E i \in 1..5 :
                            /\ costs[k].category = CategoryOrder[i]
                            /\ \E j \in DOMAIN r.body.costs[i][CategoryOrder[i]] :
                                r.body.costs[i][CategoryOrder[i]][j]
                                    = [sum |-> costs[k].sum,
                                       description |-> costs[k].description,
                                       day |-> getDate(costs[k].date)]

\* a request for a future month was answered with two costs, one stored
\* before it arrived and one stored while it waited
C14_Witness ==
    \E p \in ReportReqs :
        /\ Answered(req[p], 200)
        /\ ~req[p].isPastMonthBool
        /\ req[p].numericYear = getFullYear(now) + 1
        /\ req[p].began = 1 /\ req[p].fetched = 2
        /\ Len(req[p].body.costs[1]["food"])
                + Len(req[p].body.costs[4]["sports"]) = 2

\* C15: when the existence check of a POST /add (cost) request returns
\* and no stored User has the request's userid, the request is answered
\* 400 'User {id} does not exist.' and the costs collection is left as it
\* is; the users collection never loses a document; and in every state the
\* userid of every stored Cost is the id of a stored User.
C15_CostsReferenceUsers ==
    /\ [](\A k \in 1..Len(costs) :
            \E i \in 1..Len(users) : users[i].id = costs[k].userid)
    /\ [][/\ \A i \in 1..Len(users) : \E j \in 1..Len(users') :
                users'[j] = users[i]
          /\ \A a \in CostReqs :
                (/\ add[a].pc = "User.exists"
                 /\ add'[a] # add[a]
                 /\ ~add'[a].failed
                 /\ \A i \in 1..Len(users) :
                        users[i].id # IntegerOf(add[a].cost.userid))
                    => /\ add'[a].pc = "done"
                       /\ add'[a].status = 400
                       /\ add'[a].response = [id |-> 400, message |->
                            "User " \o ToString(IntegerOf(add[a].cost.userid))
                                \o " does not exist."]
                       /\ costs' = costs]_vars

\* a cost of user 3 was refused, nothing was stored for it, and the user
\* was added afterwards
C15_Witness ==
    /\ \E a \in CostReqs :
        /\ add[a].pc = "done" /\ add[a].status = 400
        /\ add[a].response.message = "User 3 does not exist."
    /\ costs = <<>>
    /\ \E i \in 1..Len(users) : users[i].id = 3

\* the answer the field checks of a cost are to give at instant `at`: the
\* message of the first failing check in the order missing fields,
\* category, user id, sum, date format, date not in the past; "" when none
\* fails
ExpectedCostValidation(b, at) ==
    IF \/ b.description \in {Undefined, Str(<<" ">>)}
       \/ Undefined \in {b.category, b.userid, b.sum}
    THEN "Missing required fields."
    ELSE IF b.category = Str(<<"t", "o", "y", "s">>)
    THEN "Category 'toys' is not in the list of accepted categories. "
            \o "The accepted categories are: "
            \o "food, health, housing, sports, education."
    ELSE IF b.userid \notin {Number(Num(1)), Number(Num(3))}
    THEN "User ID must be a positive integer."
    ELSE IF b.sum # Number(Num(5))
    THEN "Sum must be a non-negative finite number."
    ELSE IF b.date = Str(<<"a", "b", "c">>)
    THEN "Invalid date format."
    ELSE IF b.date # Undefined /\ b.date.at < at - (at % TicksPerDay)
    THEN "Date cannot be in the past."
    ELSE ""

DateOnlyBodies ==
    {b \in CostValidationBodies :
        /\ b.description = Str(<<"a">>)
        /\ b.category = Str(<<" ", "F", "o", "o", "d", " ">>)
        /\ b.userid \in {Number(Num(1)), Number(Num(3))}
        /\ b.sum = Number(Num(5))}

\* the request was answered 400 'Date cannot be in the past.'
RejectedAsPast(r) ==
    /\ r.pc = "done" /\ r.status = 400
    /\ r.response = [id |-> 400, message |-> "Date cannot be in the past."]

C18_TakenIdIs409 ==
    [][\A u \in UserReqs :
        (/\ addUser[u].pc \in {"User.exists", "User.save"}
         /\ addUser'[u].pc = "done"
         /\ ~addUser'[u].failed
         /\ \E i \in 1..Len(users) : users[i].id = addUser[u].numericId)
            => /\ addUser'[u].status = 409
               /\ addUser'[u].response = [id |-> 409, message |->
                    "User " \o ToString(addUser[u].numericId)
                        \o " already exists."]
               /\ users' = users]_vars

\* C19: in every state no two stored User documents have the same id, and
\* no step changes or removes a stored User document (the collection only
\* grows at its end).
C19_UniqueUserIds ==
    /\ [](\A i \in 1..Len(users), j \in 1..Len(users) :
            users[i].id = users[j].id => i = j)
    /\ [][/\ Len(users') >= Len(users)
          /\ SubSeq(users', 1, Len(users)) = users]_vars

\* two overlapping requests both passed the existence check for id 3 with
\* different first names; one created the user, the other's insert was
\* refused
C19_Witness ==
    \E u \in UserReqs, v \in UserReqs :
        /\ u # v
        /\ addUser[u].pc = "done" /\ addUser[u].status = 201
        /\ addUser[u].numericId = 3
        /\ addUser[v].pc = "done" /\ addUser[v].status = 500
        /\ ~addUser[v].failed
        /\ addUser[v].user # NoDoc
        /\ addUser[v].user.id = 3
        /\ addUser[v].user # addUser[u].user
        /\ Cardinality({i \in 1..Len(users) : users[i].id = 3}) = 1

\* C20: among the arriving POST /add (user) requests whose other fields
\* are valid, exactly those whose birthday lies after the current instant
\* are answered 400 'Birthday cannot be in the future.'; a birthday at or
\* before the current instant, an instant earlier today included, passes
\* on to the existence check, and the insert of such a user, when it is
\* stored, is answered 201.
C20_FutureBirthdayBoundary ==
    [][\A u \in UserReqs :
        /\ (/\ addUser[u].pc \in {"idle", "done"}
            /\ addUser'[u] # addUser[u]
            /\ addUser'[u].body.id = Number(Num(3))
            /\ addUser'[u].body.first_name = Str(<<"e">>)
            /\ addUser'[u].body.birthday.t = "date") =>
                IF addUser'[u].body.birthday.at > now
                THEN /\ addUser'[u].pc = "done"
                     /\ addUser'[u].status = 400
                     /\ addUser'[u].response = [id |-> 400, message |->
                            "Birthday cannot be in the future."]
                ELSE addUser'[u].pc = "User.exists"
        /\ (addUser[u].pc = "User.save" /\ Len(users') > Len(users))
                => addUser'[u].pc = "done" /\ addUser'[u].status = 201]_vars

\* the id texts that are decimal numerals of positive integers
PositiveIntegerIds == {<<"1">>, <<"2">>, <<"3">>}

\* the sum of the `sum` fields of the first n stored costs of a user
RECURSIVE TotalUpTo(_, _)
TotalUpTo(userid, n) ==
    IF n = 0 THEN 0
    ELSE TotalUpTo(userid, n - 1)
            + (IF costs[n].userid = userid THEN costs[n].sum.num ELSE 0)

\* C21: a GET /users/:id request whose id text is a positive integer of a
\* stored user is answered 200 with that user's names and id and a total
\* equal to the sum of the sums of exactly the costs of that userid stored
\* when the aggregation returned (0 when there are none); the id of no
\* stored user is answered 404; an id text that is no positive integer is
\* answered 400 without any User or Cost query (store failures aside).
C21_UserTotal ==
    LET r == getUser
        known == {<<"1">>, <<"2">>}
    IN  r.pc \in {"res.finish", "done"} /\ ~r.failed =>
            /\ r.id \in known =>
                    \E i \in 1..Len(users) :
                        /\ TextOf(r.id) = ToString(users[i].id)
                        /\ r.status = 200
                        /\ r.calls = <<"User.findOne", "Cost.aggregate">>
                        /\ r.body = [first_name |-> users[i].first_name,
                                     last_name |-> users[i].last_name,
                                     id |-> users[i].id,
                                     total |-> Num(TotalUpTo(users[i].id,
                                                             r.fetched))]
            /\ r.id \in PositiveIntegerIds \ known =>
                    /\ r.status = 404
                    /\ r.body = ErrorBody(404, "User " \o TextOf(r.id)
                                                \o " does not exist.")
                    /\ r.calls = <<"User.findOne">>
            /\ r.id \notin PositiveIntegerIds =>
                    /\ r.status = 400
                    /\ r.body = ErrorBody(400,
                                    "User ID must be a positive integer.")
                    /\ r.calls = <<>>

\* user 1 was answered its total of two costs while a cost of user 2 is
\* stored
C21_Witness ==
    /\ getUser.pc = "done" /\ getUser.status = 200
    /\ getUser.id = <<"1">>
    /\ getUser.body.total = Num(12)
    /\ \E i \in 1..getUser.fetched : costs[i].userid = 2

\* C22: a step of a GET /report request leaves the users and the costs
\* collections as they are, whatever the request is answered; the reports
\* collection changes only by such a step, which appends one document of
\* the key of the request whose Report.create returned, and a request
\* issues Report.create at most once.
C22_ReportFrame ==
    /\ [](\A p \in ReportReqs :
            Cardinality({i \in DOMAIN req[p].calls :
                            req[p].calls[i] = "Report.create"}) <= 1)
    /\ [][/\ reports' # reports => req' # req
          /\ req' # req =>
                /\ users' = users
                /\ costs' = costs
                /\ \/ reports' = reports
                   \/ \E p \in ReportReqs :
                        /\ req[p].pc = "Report.create"
                        /\ req'[p].pc = "done" /\ req'[p].status = 200
                        /\ Len(reports') = Len(reports) + 1
                        /\ SubSeq(reports', 1, Len(reports)) = reports
                        /\ <<reports'[Len(reports')].userid,
                              reports'[Len(reports')].year,
                              reports'[Len(reports')].month>> = KeyOf(req[p])
         ]_vars

\* a request stored its report and was answered 200, another was answered
\* 500, and a cost added meanwhile is stored
C22_Witness ==
    /\ Len(costs) = 1 /\ Len(reports) = 1
    /\ \E p, o \in ReportReqs :
        /\ Answered(req[p], 200)
        /\ req[p].calls[Len(req[p].calls)] = "Report.create"
        /\ Answered(req[o], 500)

\* the log writes issued so far are those of request r alone
OnlyLogsOf(r) ==
    \A i \in DOMAIN logCreates : i \in {r.accessLog, r.finishLog}

\* C23: when a GET /logs request arrives while the logs collection is
\* empty and no other request has written a log, its 200 answer holds at
\* most one entry, and an entry it holds is the endpoint-access log of
\* this request (method GET, path /api/logs); the 'HTTP request
\* received.' log of the request is never in it.
C23_OwnAccessLogOnly ==
    LET r == getLogs
    IN  r.pc \in {"res.finish", "done"} /\ r.status = 200 /\ OnlyLogsOf(r) =>
            /\ Len(r.body) <= 1
            /\ \A k \in DOMAIN r.body :
                /\ r.body[k] = logCreates[r.accessLog].doc
                /\ r.body[k].method = "GET"
                /\ r.body[k].path = "/api/logs"
                /\ r.body[k].message = "Endpoint accessed: GET /api/logs"
                /\ r.body[k].message # "HTTP request received."

\* the access log was stored before Log.find returned and is the one
\* entry of the answer; the request log was written afterwards
C23_Witness ==
    /\ getLogs.pc = "done" /\ getLogs.status = 200 /\ OnlyLogsOf(getLogs)
    /\ Len(getLogs.body) = 1
    /\ Len(logs) = 2
    /\ logs[2].message = "HTTP request received."

\* the categories of the registry
Registered == {CategoryOrder[i] : i \in 1..5}

\* the fetch of request r returned a cost of the requested month whose
\* category is not in the registry
FetchedUnregistered(r) ==
    \E k \in 1..Len(costs) :
        /\ costs[k].userid = r.numericUserId
        /\ costs[k].category \notin Registered
        /\ getFullYear(costs[k].date) = r.numericYear
        /\ getMonth(costs[k].date) + 1 = r.numericMonth

\* C24: a request whose cost fetch returned a cost of the requested month
\* with a category outside the registry is answered 200 with one list per
\* registered category, the cost left out, whatever the category value is
\* (an answer 500 happens only when a store call was rejected).
C24_UnknownCategoryDropped ==
    \A p \in ReportReqs :
        LET r == req[p]
        IN  /\ r.pc = "done" /\ ~r.failed
            /\ "Cost.find" \in Range(r.calls)
            /\ FetchedUnregistered(r)
            =>  /\ r.status = 200
                /\ DOMAIN r.body.costs = 1..5
                /\ \A i \in 1..5 :
                    r.body.costs[i][CategoryOrder[i]]
                        = EntriesOf(OfCategory(
                            CostsInMonth(costs, r.numericUserId,
                                r.numericYear, r.numericMonth),
                            CategoryOrder[i]))

\* the strictly increasing maps from the positions of a list of n entries
\* to the positions of a list of m records
Embeddings(n, m) ==
    {f \in [1..n -> 1..m] : \A i, j \in 1..n : i < j => f[i] < f[j]}

\* C25: in a freshly computed report, the entries of each category list
\* are entries of fetched costs of that category, taken at increasing
\* positions of the fetch result: two entries of a list are in the order
\* in which the cost fetch returned their costs.
C25_FetchOrderKept ==
    \A p \in ReportReqs :
        req[p].report # NoDoc =>
            LET r == req[p]
                found == SelectSeq(SubSeq(costs, 1, r.fetched),
                            LAMBDA c : c.userid = r.numericUserId)
            IN  \A i \in 1..5 :
                    LET list == r.report.costs[i][CategoryOrder[i]]
                    IN  \E f \in Embeddings(Len(list), Len(found)) :
                            \A k \in 1..Len(list) :
                                /\ found[f[k]].category = CategoryOrder[i]
                                /\ list[k] = EntriesOf(found)[f[k]]

\* a computed list holds a cost of sum 7 of the second day before a cost
\* of sum 5 of the first day, as the store holds them
C25_Witness ==
    \E p \in ReportReqs :
        /\ req[p].report # NoDoc
        /\ Len(req[p].report.costs[1].food) = 2
        /\ req[p].report.costs[1].food[1].sum = Num(7)
        /\ req[p].report.costs[1].food[1].day = 2
        /\ req[p].report.costs[1].food[2].sum = Num(5)
        /\ req[p].report.costs[1].food[2].day = 1

\* C26: a request that has issued Report.create issued it last, after the
\* user check, a cache lookup of its own that found nothing and the cost
\* fetch; the lookup is issued exactly by the requests that classified
\* their month as past, and only they issue the insert, wherever the clock
\* stands by then.
C26_InsertOnlyAfterOwnMiss ==
    \A p \in ReportReqs :
        LET r == req[p]
        IN  /\ "Report.create" \in Range(r.calls) =>
                    /\ r.calls = <<"User.exists", "Report.findOne",
                                   "Cost.find", "Report.create">>
                    /\ r.cachedReport = NoDoc
                    /\ r.isPastMonthBool
            /\ "Report.findOne" \in Range(r.calls) <=> r.isPastMonthBool

\* in January a request stored the report of December after a miss, while
\* a request that classified December as current before the month turned
\* was answered without lookup and insert
C26_Witness ==
    /\ getMonth(now) = 0
    /\ \E p, o \in ReportReqs :
        /\ Answered(req[p], 200)
        /\ req[p].calls = <<"User.exists", "Report.findOne",
                            "Cost.find", "Report.create">>
        /\ KeyOf(req[p]) = <<1, StartYear, 12>>
        /\ Answered(req[o], 200)
        /\ KeyOf(req[o]) = <<1, StartYear, 12>>
        /\ req[o].calls = <<"User.exists", "Cost.find">>

C28_CachedReportNeverStale ==
    \A k \in 1..Len(reports) :
        \A i \in 1..5 :
            reports[k].costs[i][CategoryOrder[i]]
                = EntriesOf(OfCategory(
                    CostsInMonth(costs, reports[k].userid, reports[k].year,
                                 reports[k].month),
                    CategoryOrder[i]))

\* C29: when every awaited store call returns, a started GET /report
\* request ends, and a request that has ended has sent exactly one
\* response, of status 200, 400 or 500; a running request has sent none.
C29_ExactlyOneResponse ==
    /\ [](\A p \in ReportReqs :
            /\ req[p].sent <= 1
            /\ req[p].pc = "done" =>
                    req[p].sent = 1 /\ req[p].status \in {200, 400, 500}
            /\ req[p].pc \notin {"idle", "done"} => req[p].sent = 0)
    /\ \A p \in ReportReqs :
            req[p].pc \notin {"idle", "done"} ~> req[p].pc = "done"

\* a request for a missing user has ended with 400 after its user check
\* and a request whose store call was rejected has ended with 500, each
\* with one response sent
C29_Witness ==
    \E p, o \in ReportReqs :
        /\ Answered(req[p], 400) /\ req[p].calls = <<"User.exists">>
        /\ req[p].sent = 1
        /\ Answered(req[o], 500) /\ req[o].failed
        /\ req[o].sent = 1

\* C30: a POST /add (cost) request that passed every check of the route
\* and whose user exists is answered 201 with its cost stored, unless a
\* store call was rejected, also when midnight passes before the save.
C30_CheckedCostIsSaved ==
    \A a \in CostReqs :
        LET r == add[a]
        IN  /\ r.pc = "done" /\ ~r.failed
            /\ r.cost # NoDoc
            /\ UserExists(IntegerOf(r.cost.userid))
            =>  /\ r.status = 201
                /\ \E k \in 1..Len(costs) :
                    /\ costs[k] = r.response
                    /\ costs[k].date = r.cost.date
====
